---- MODULE Spec2Model ----
(***************************************************************************)
(* Engagement-counter protocol of the Livuth backend: like toggles on      *)
(* events, posts and comments, follow/unfollow between users, and the      *)
(* review statistics written through to events; comments and their        *)
(* counters, deletion of events and posts, participation lists and the     *)
(* batch pass over participant counts; and the public listings of events   *)
(* and posts (pagination, search, recommendation, proximity).              *)
(* Every request is an async handler whose awaits on the document store    *)
(* are its atomic steps; requests of different clients (and of different   *)
(* service instances) interleave at those awaits.                          *)
(***************************************************************************)
EXTENDS Integers, Sequences, FiniteSets, TLC

\* ------------------------------------------------------------------------
\* Bounds
\* ------------------------------------------------------------------------
\* number of toggle_like requests issued in one behaviour
MaxLikeReqs == 3

Users == {"u1", "u2", "u3"}
\* one document of each collection that carries a liker list
Targets == {"event", "post", "comment"}

LikeReqs == 1..MaxLikeReqs

\* number of follow_user / unfollow_user calls issued in one behaviour
MaxFollowReqs == 4
FollowReqs == 1..MaxFollowReqs

\* length of the sequences of calls tried to repair a half-done follow
RecoverDepth == 4

\* number of create_review / update_review / delete_review calls issued in
\* one behaviour; the review a call inserts takes the call's number as _id,
\* a review that exists at the start has _id 0
MaxReviewReqs == 2
ReviewReqs == 1..MaxReviewReqs

Events == {"e1"}
\* an id that resolves to no event document
NoEvent == "no_event"
\* the users that write reviews, and the admin, who only deletes
Reviewers == {"u1", "u2"}
Admin == "admin"
\* the ratings requests carry (the schema admits 1..5)
RatingChoices == {1, 2}
\* update_review with data.rating = None
NoRating == 0
ReviewIds == {0} \cup ReviewReqs

\* an id that resolves to no user document
NoUser == "nobody"
\* the users that issue follow/unfollow calls, and the ids they name
FollowActors == {"u1", "u2"}
FollowTargets == FollowActors \cup {NoUser}

\* number of create_comment / delete_comment / delete_post calls issued in
\* one behaviour; the comment a call inserts takes the call's number as _id,
\* the comment that exists at the start has _id 0 and its reply _id -1
MaxCommentReqs == 3
CommentReqs == 1..MaxCommentReqs

CPosts == {"p1"}
\* an id that resolves to no post document
NoPost == "no_post"
\* author_id of the post
PostAuthor == "u1"
\* the users that write comments
Commenters == {"u1", "u2"}
\* parent_id of a comment that is no reply (None)
NoParent == -2
CommentIds == {-1, 0} \cup CommentReqs

\* number of add_participated_event / remove_participated_event calls
\* issued in one behaviour
MaxPartReqs == 3
PartReqs == 1..MaxPartReqs
\* the events users take part in
PartEvents == {"e1", "e2", "e3"}
\* the users that take part
Participants == {"u1", "u2"}

\* number of documents of the collection a paginated listing reads
MaxItems == 16
\* the pages and page sizes requests ask for
MaxPage == 3
PageSizes == {1, 4, 10}

VARIABLES
    likes,        \* target -> array of user ids (events: "likes", posts/comments: "liked_by")
    like_count,   \* target -> stored like_count
    lreq,         \* request -> state of a toggle_like handler
    likes0,       \* history: liker set of each target in the initial state
    ntoggle,      \* history: target -> user -> number of toggle_like calls started
    ltrack        \* history: the last toggle_like calls that ran alone, one after the other

likeVars == <<likes, like_count, lreq, likes0, ntoggle, ltrack>>

VARIABLES
    following,        \* user -> set of user ids ("following" array, written with $addToSet/$pull)
    followers,        \* user -> set of user ids ("followers" array)
    following_count,  \* user -> stored following_count
    followers_count,  \* user -> stored followers_count
    freq,             \* request -> state of a follow_user / unfollow_user call
    ffail,            \* history: the (current, target) pairs whose second update_one failed, in order
    ftrack            \* history: the last follow/unfollow calls that ran alone, one after the other

followVars == <<following, followers, following_count, followers_count, freq, ffail, ftrack>>

VARIABLES
    reviews,         \* the reviews collection: records [id, user_id, event_id, rating]
    average_rating,  \* event -> stored average_rating, in tenths
    review_count,    \* event -> stored review_count
    rreq             \* request -> state of a review call

reviewVars == <<reviews, average_rating, review_count, rreq>>

VARIABLES
    events,   \* the events collection, in natural (insertion) order
    posts,    \* the posts collection, in natural order
    hobbies,  \* user id -> the "hobbies" list of the user document
    call,     \* the listing request in flight, between its awaits
    resp      \* the answer of the last listing request that completed

listVars == <<events, posts, hobbies, call, resp>>

VARIABLES
    post_ids,       \* the _ids of the documents of the posts collection
    comment_count,  \* post -> stored comment_count
    comments,       \* the comments collection: records [id, post_id, author_id, parent_id, reply_count]
    creq            \* request -> state of a create_comment / delete_comment / delete_post call

commentVars == <<post_ids, comment_count, comments, creq>>

VARIABLES
    event_ids   \* the _ids of the documents of the events collection

eventVars == <<event_ids>>

VARIABLES
    participated_events,  \* user -> the "participated_events" list of the user document
    checkins,             \* the checkins collection: records [user_id, event_id]
    participant_count,    \* event -> stored participant_count
    preq,                 \* request -> state of an add/remove_participated_event call
    mig                   \* the run of migrate_participant_counts

partVars == <<participated_events, checkins, participant_count, preq, mig>>

\* what a handler of one feature leaves alone: the collections and the
\* requests of the other features
LikeFrame == UNCHANGED <<followVars, reviewVars, listVars, commentVars, eventVars, partVars>>
FollowFrame == UNCHANGED <<likeVars, reviewVars, listVars, commentVars, eventVars, partVars>>
ReviewFrame == UNCHANGED <<likeVars, followVars, listVars, commentVars, eventVars, partVars>>
ListFrame == UNCHANGED <<likeVars, followVars, reviewVars, commentVars, eventVars, partVars>>
CommentFrame == UNCHANGED <<likeVars, followVars, reviewVars, listVars, eventVars, partVars>>
EventFrame == UNCHANGED <<likeVars, followVars, listVars, commentVars, partVars>>
PartFrame == UNCHANGED <<likeVars, followVars, reviewVars, listVars, commentVars, eventVars>>

\* ------------------------------------------------------------------------
\* Helpers on arrays
\* ------------------------------------------------------------------------
Range(s) == {s[i] : i \in 1..Len(s)}

\* Python `x in list`
Contains(arr, u) == u \in Range(arr)

\* MongoDB $pull: removes every occurrence of the value
Pull(arr, u) == SelectSeq(arr, LAMBDA x : x # u)

\* MongoDB $push: appends, duplicates allowed
Push(arr, u) == Append(arr, u)

\* MongoDB $addToSet: appends unless already present
AddToSet(arr, u) == IF Contains(arr, u) THEN arr ELSE Append(arr, u)

RECURSIVE SetToSeq(_)
SetToSeq(S) == IF S = {} THEN <<>>
               ELSE LET x == CHOOSE y \in S : TRUE IN <<x>> \o SetToSeq(S \ {x})

\* ------------------------------------------------------------------------
\* toggle_like (events: service method, posts and comments: route handlers)
\* ------------------------------------------------------------------------
IdleLike == [pc |-> "idle", actor |-> "none", target |-> "none", action |-> "none"]
DoneLike == [pc |-> "done", actor |-> "none", target |-> "none", action |-> "none"]

\* no toggle_like handler is between its first and its last store operation
LikeQuiescent == \A r \in LikeReqs : lreq[r].pc \in {"idle", "done"}

\* the branch taken on the document that find_one returned
ChooseAction(arr, u) == IF Contains(arr, u) THEN "unliked" ELSE "liked"

\* a toggle that increments on both branches
LikeDeltaAlwaysInc(action) == 1

\* the $inc of the update document
LikeDelta(action) == IF action = "liked" THEN 1 ELSE -1

\* an unlike whose $pull matches nothing (the id pulled in another type)
UpdateArrayNoPull(t, action, arr, u) ==
    IF action = "unliked" THEN arr
    ELSE IF t = "event" THEN AddToSet(arr, u)
    ELSE Push(arr, u)

\* the array operator of the update document, applied by the store to the
\* array as it is when the update runs
UpdateArray(t, action, arr, u) ==
    IF action = "unliked" THEN Pull(arr, u)
    ELSE IF t = "event" THEN AddToSet(arr, u)
    ELSE Push(arr, u)

\* history bookkeeping: a call that starts while no other call is running
\* opens a record; a call that overlaps another one discards the records
TrackLikeStart(t) ==
    IF LikeQuiescent
    THEN [calls |-> ltrack.calls,
          cur   |-> <<[likes |-> likes[t], like_count |-> like_count[t]]>>]
    ELSE [calls |-> <<>>, cur |-> <<>>]

TrackLikeFinish(r, cnt) ==
    IF ltrack.cur # <<>>
    THEN [calls |-> (IF ltrack.calls = <<>> THEN <<>>
                     ELSE <<ltrack.calls[Len(ltrack.calls)]>>)
                    \o <<[actor      |-> lreq[r].actor,
                          target     |-> lreq[r].target,
                          pre        |-> ltrack.cur[1],
                          is_liked   |-> (lreq[r].action = "liked"),
                          like_count |-> cnt]>>,
          cur   |-> <<>>]
    ELSE [calls |-> <<>>, cur |-> <<>>]

LikeStartGuard(r) ==
    /\ lreq[r].pc = "idle"
    /\ IF r = 1 THEN TRUE ELSE lreq[r - 1].pc # "idle"

\* find_one of the target, membership test, choice of the update document
ToggleLikeFind(r, u, t) ==
    /\ LikeStartGuard(r)
    /\ lreq' = [lreq EXCEPT ![r] = [pc |-> "update", actor |-> u, target |-> t,
                                    action |-> ChooseAction(likes[t], u)]]
    /\ ntoggle' = [ntoggle EXCEPT ![t][u] = @ + 1]
    /\ ltrack' = TrackLikeStart(t)
    /\ UNCHANGED <<likes, like_count, likes0>>
    /\ LikeFrame

\* find_one returns no document: NOT_FOUND, nothing is written
ToggleLikeNotFound(r, u) ==
    /\ LikeStartGuard(r)
    /\ lreq' = [lreq EXCEPT ![r] = DoneLike]
    /\ ltrack' = [calls |-> <<>>, cur |-> <<>>]
    /\ UNCHANGED <<likes, like_count, likes0, ntoggle>>
    /\ LikeFrame

\* an update whose filter matches every document that carries a liker list
ToggleLikeUpdateMany(r) ==
    LET t == lreq[r].target
        u == lreq[r].actor
        a == lreq[r].action
    IN  /\ lreq[r].pc = "update"
        /\ likes' = [x \in Targets |-> UpdateArray(x, a, likes[x], u)]
        /\ like_count' = [x \in Targets |-> like_count[x] + LikeDelta(a)]
        /\ IF t = "event"
           THEN /\ lreq' = [lreq EXCEPT ![r] = DoneLike]
                /\ ltrack' = TrackLikeFinish(r, like_count'[t])
           ELSE /\ lreq' = [lreq EXCEPT ![r].pc = "reread"]
                /\ UNCHANGED ltrack
        /\ UNCHANGED <<likes0, ntoggle>>
        /\ LikeFrame

\* find_one_and_update (events) / update_one (posts, comments)
ToggleLikeUpdate(r) ==
    LET t == lreq[r].target
        u == lreq[r].actor
        a == lreq[r].action
    IN  /\ lreq[r].pc = "update"
        /\ likes' = [likes EXCEPT ![t] = UpdateArray(t, a, likes[t], u)]
        /\ like_count' = [like_count EXCEPT ![t] = @ + LikeDelta(a)]
        /\ IF t = "event"
           THEN \* the updated document is the response
                /\ lreq' = [lreq EXCEPT ![r] = DoneLike]
                /\ ltrack' = TrackLikeFinish(r, like_count'[t])
           ELSE /\ lreq' = [lreq EXCEPT ![r].pc = "reread"]
                /\ UNCHANGED ltrack
        /\ UNCHANGED <<likes0, ntoggle>>
        /\ LikeFrame

\* posts and comments: second find_one, like_count of the response
ToggleLikeReread(r) ==
    /\ lreq[r].pc = "reread"
    /\ lreq' = [lreq EXCEPT ![r] = DoneLike]
    /\ ltrack' = TrackLikeFinish(r, like_count[lreq[r].target])
    /\ UNCHANGED <<likes, like_count, likes0, ntoggle>>
    /\ LikeFrame

\* every target liked by the users S, each once
InitLikeWith(S) ==
    /\ likes0 = [t \in Targets |-> S]
    /\ likes = [t \in Targets |-> SetToSeq(S)]
    /\ like_count = [t \in Targets |-> Cardinality(S)]
    /\ lreq = [r \in LikeReqs |-> IdleLike]
    /\ ntoggle = [t \in Targets |-> [u \in Users |-> 0]]
    /\ ltrack = [calls |-> <<>>, cur |-> <<>>]

InitLike == \E S \in SUBSET Users : InitLikeWith(S)

NextLike ==
    \/ \E r \in LikeReqs, u \in Users, t \in Targets : ToggleLikeFind(r, u, t)
    \/ \E r \in LikeReqs, u \in Users : ToggleLikeNotFound(r, u)
    \/ \E r \in LikeReqs : ToggleLikeUpdate(r)
    \/ \E r \in LikeReqs : ToggleLikeReread(r)

\* ------------------------------------------------------------------------
\* follow_user / unfollow_user
\* ------------------------------------------------------------------------
IdleFollow == [pc |-> "idle", op |-> "none", cur |-> "none", tgt |-> "none"]
DoneFollow == [pc |-> "done", op |-> "none", cur |-> "none", tgt |-> "none"]

FollowQuiescent == \A r \in FollowReqs : freq[r].pc \in {"idle", "done"}

\* the users collection, as one value
UserStore ==
    [following |-> following, followers |-> followers,
     following_count |-> following_count, followers_count |-> followers_count]

\* follow_user, first update_one: $addToSet following, $inc following_count 1
FollowUpdateCurrent(s, a, b) ==
    [s EXCEPT !.following[a] = @ \cup {b}, !.following_count[a] = @ + 1]

\* follow_user, second update_one: $addToSet followers, $inc followers_count 1
FollowUpdateTarget(s, a, b) ==
    [s EXCEPT !.followers[b] = @ \cup {a}, !.followers_count[b] = @ + 1]

\* unfollow_user, first update_one: $pull following, $inc following_count -1
UnfollowUpdateCurrent(s, a, b) ==
    [s EXCEPT !.following[a] = @ \ {b}, !.following_count[a] = @ - 1]

\* an unfollow that leaves the target's followers_count alone
UnfollowUpdateTargetNoDec(s, a, b) ==
    IF b \in Users THEN [s EXCEPT !.followers[b] = @ \ {a}] ELSE s

\* unfollow_user, second update_one: $pull followers, $inc followers_count -1
\* (an update_one whose filter matches no document changes nothing)
UnfollowUpdateTarget(s, a, b) ==
    IF b \in Users
    THEN [s EXCEPT !.followers[b] = @ \ {a}, !.followers_count[b] = @ - 1]
    ELSE s

\* `target_oid in current_user.get("following", [])`
IsFollowing(s, a, b) == b \in s.following[a]

SetUserStore(s) ==
    /\ following' = s.following
    /\ followers' = s.followers
    /\ following_count' = s.following_count
    /\ followers_count' = s.followers_count

\* history bookkeeping, as for toggle_like
TrackFollowStart ==
    IF FollowQuiescent
    THEN [calls |-> ftrack.calls, cur |-> <<UserStore>>]
    ELSE [calls |-> <<>>, cur |-> <<>>]

TrackFollowFinish(t, op, a, b, res) ==
    IF t.cur # <<>>
    THEN [calls |-> (IF t.calls = <<>> THEN <<>> ELSE <<t.calls[Len(t.calls)]>>)
                    \o <<[op |-> op, cur |-> a, tgt |-> b, res |-> res, pre |-> t.cur[1]]>>,
          cur   |-> <<>>]
    ELSE [calls |-> <<>>, cur |-> <<>>]

FollowStartGuard(r) ==
    /\ freq[r].pc = "idle"
    /\ IF r = 1 THEN TRUE ELSE freq[r - 1].pc # "idle"

\* follow_user up to the first find_one: self-follow is rejected, an unknown
\* target is NOT_FOUND
FollowFindTarget(r, a, b) ==
    /\ FollowStartGuard(r)
    /\ IF a = b
       THEN /\ freq' = [freq EXCEPT ![r] = DoneFollow]
            /\ ftrack' = TrackFollowFinish(TrackFollowStart, "follow", a, b, "bad_request")
       ELSE IF b \notin Users
       THEN /\ freq' = [freq EXCEPT ![r] = DoneFollow]
            /\ ftrack' = TrackFollowFinish(TrackFollowStart, "follow", a, b, "not_found")
       ELSE /\ freq' = [freq EXCEPT ![r] = [pc |-> "check", op |-> "follow", cur |-> a, tgt |-> b]]
            /\ ftrack' = TrackFollowStart
    /\ UNCHANGED <<following, followers, following_count, followers_count, ffail>>
    /\ FollowFrame

\* follow_user, second find_one: already following returns False
FollowCheck(r) ==
    /\ freq[r].pc = "check"
    /\ IF IsFollowing(UserStore, freq[r].cur, freq[r].tgt)
       THEN /\ freq' = [freq EXCEPT ![r] = DoneFollow]
            /\ ftrack' = TrackFollowFinish(ftrack, "follow", freq[r].cur, freq[r].tgt, "false")
       ELSE /\ freq' = [freq EXCEPT ![r].pc = "w1"]
            /\ UNCHANGED ftrack
    /\ UNCHANGED <<following, followers, following_count, followers_count, ffail>>
    /\ FollowFrame

FollowWriteCurrent(r) ==
    /\ freq[r].pc = "w1"
    /\ freq[r].op = "follow"
    /\ SetUserStore(FollowUpdateCurrent(UserStore, freq[r].cur, freq[r].tgt))
    /\ freq' = [freq EXCEPT ![r].pc = "w2"]
    /\ UNCHANGED <<ffail, ftrack>>
    /\ FollowFrame

FollowWriteTarget(r) ==
    /\ freq[r].pc = "w2"
    /\ freq[r].op = "follow"
    /\ SetUserStore(FollowUpdateTarget(UserStore, freq[r].cur, freq[r].tgt))
    /\ freq' = [freq EXCEPT ![r] = DoneFollow]
    /\ ftrack' = TrackFollowFinish(ftrack, "follow", freq[r].cur, freq[r].tgt, "true")
    /\ UNCHANGED ffail
    /\ FollowFrame

\* unfollow_user up to its find_one: not following returns False
UnfollowCheck(r, a, b) ==
    /\ FollowStartGuard(r)
    /\ IF ~IsFollowing(UserStore, a, b)
       THEN /\ freq' = [freq EXCEPT ![r] = DoneFollow]
            /\ ftrack' = TrackFollowFinish(TrackFollowStart, "unfollow", a, b, "false")
       ELSE /\ freq' = [freq EXCEPT ![r] = [pc |-> "w1", op |-> "unfollow", cur |-> a, tgt |-> b]]
            /\ ftrack' = TrackFollowStart
    /\ UNCHANGED <<following, followers, following_count, followers_count, ffail>>
    /\ FollowFrame

UnfollowWriteCurrent(r) ==
    /\ freq[r].pc = "w1"
    /\ freq[r].op = "unfollow"
    /\ SetUserStore(UnfollowUpdateCurrent(UserStore, freq[r].cur, freq[r].tgt))
    /\ freq' = [freq EXCEPT ![r].pc = "w2"]
    /\ UNCHANGED <<ffail, ftrack>>
    /\ FollowFrame

UnfollowWriteTarget(r) ==
    /\ freq[r].pc = "w2"
    /\ freq[r].op = "unfollow"
    /\ SetUserStore(UnfollowUpdateTarget(UserStore, freq[r].cur, freq[r].tgt))
    /\ freq' = [freq EXCEPT ![r] = DoneFollow]
    /\ ftrack' = TrackFollowFinish(ftrack, "unfollow", freq[r].cur, freq[r].tgt, "true")
    /\ UNCHANGED ffail
    /\ FollowFrame

\* the second update_one raises (the store is unreachable): the call ends
\* with the first write committed and nothing undoing it
SecondWriteFails(r) ==
    /\ freq[r].pc = "w2"
    /\ freq' = [freq EXCEPT ![r] = DoneFollow]
    /\ ffail' = Append(ffail, <<freq[r].cur, freq[r].tgt>>)
    /\ ftrack' = [calls |-> <<>>, cur |-> <<>>]
    /\ UNCHANGED <<following, followers, following_count, followers_count>>
    /\ FollowFrame

\* follow_user run from its first to its last statement with no other request
\* in between: the value of the users collection it leaves
CallFollow(s, a, b) ==
    IF a = b \/ b \notin Users THEN s
    ELSE IF IsFollowing(s, a, b) THEN s
    ELSE FollowUpdateTarget(FollowUpdateCurrent(s, a, b), a, b)

\* unfollow_user run alone
CallUnfollow(s, a, b) ==
    IF ~IsFollowing(s, a, b) THEN s
    ELSE UnfollowUpdateTarget(UnfollowUpdateCurrent(s, a, b), a, b)

\* the stores that sequences of at most n failure-free calls lead to
RECURSIVE ReachSeq(_, _)
ReachSeq(S, n) ==
    IF n = 0 THEN S
    ELSE ReachSeq(S \cup {CallFollow(s, a, b) : s \in S, a \in Users, b \in Users}
                    \cup {CallUnfollow(s, a, b) : s \in S, a \in Users, b \in Users},
                  n - 1)

InitFollow ==
    /\ following = [u \in Users |-> {}]
    /\ followers = [u \in Users |-> {}]
    /\ following_count = [u \in Users |-> 0]
    /\ followers_count = [u \in Users |-> 0]
    /\ freq = [r \in FollowReqs |-> IdleFollow]
    /\ ffail = <<>>
    /\ ftrack = [calls |-> <<>>, cur |-> <<>>]

NextFollow ==
    \/ \E r \in FollowReqs, a \in FollowActors, b \in FollowTargets : FollowFindTarget(r, a, b)
    \/ \E r \in FollowReqs : FollowCheck(r)
    \/ \E r \in FollowReqs : FollowWriteCurrent(r)
    \/ \E r \in FollowReqs : FollowWriteTarget(r)
    \/ \E r \in FollowReqs, a \in FollowActors, b \in FollowTargets : UnfollowCheck(r, a, b)
    \/ \E r \in FollowReqs : UnfollowWriteCurrent(r)
    \/ \E r \in FollowReqs : UnfollowWriteTarget(r)
    \/ \E r \in FollowReqs : SecondWriteFails(r)

\* ------------------------------------------------------------------------
\* create_review / update_review / delete_review and the statistics
\* written through to the event
\* ------------------------------------------------------------------------
\* res is what the call answered; alone tells that no other review call has
\* run between this call's start and now
IdleReview == [pc |-> "idle", op |-> "none", user |-> "none", event |-> "none",
               rid |-> 0, rating |-> 0, avg |-> 0, total |-> 0,
               res |-> "none", alone |-> TRUE]
DoneReview == [IdleReview EXCEPT !.pc = "done"]

\* the call has returned, or raised, res
ReviewReturns(res) == [DoneReview EXCEPT !.res = res]

\* ExceptionType.DUPLICATE_ENTRY as the client sees it
DuplicateEntry == "conflict"

\* request r starts as rec: the calls it overlaps are no longer alone
StartReview(r, rec) ==
    [q \in ReviewReqs |->
        IF q = r
        THEN IF rec.pc = "done" THEN rec
             ELSE [rec EXCEPT !.alone = \A o \in ReviewReqs \ {r} :
                                            rreq[o].pc \in {"idle", "done"}]
        ELSE IF rreq[q].pc \in {"idle", "done"} THEN rreq[q]
             ELSE [rreq[q] EXCEPT !.alone = FALSE]]

ReviewQuiescent == \A r \in ReviewReqs : rreq[r].pc \in {"idle", "done"}

ReviewsOf(rs, e) == {d \in rs : d.event_id = e}

RECURSIVE SumRatings(_)
SumRatings(rs) ==
    IF rs = {} THEN 0
    ELSE LET d == CHOOSE x \in rs : TRUE IN d.rating + SumRatings(rs \ {d})

\* round(sum / n, 1) in tenths: Python rounds to the nearest tenth, a tie to
\* the even one (a tie is a multiple of 0.25 here, which a double holds exactly)
RoundTenths(sum, n) ==
    LET q   == (10 * sum) \div n
        rem == (10 * sum) % n
    IN  IF 2 * rem < n THEN q
        ELSE IF 2 * rem > n THEN q + 1
        ELSE IF q % 2 = 0 THEN q ELSE q + 1

\* the $match/$group pipeline and the rounding of its result
GetEventAverageRating(rs, e) ==
    LET mine == ReviewsOf(rs, e)
    IN  IF mine # {}
        THEN [average_rating |-> RoundTenths(SumRatings(mine), Cardinality(mine)),
              total_reviews  |-> Cardinality(mine)]
        ELSE [average_rating |-> 0, total_reviews |-> 0]

\* a lookup by event only under another user's id: it finds nothing
GetUserReviewForEventWrongUser(rs, e, u) ==
    \E d \in rs : d.event_id = e /\ d.user_id = u /\ d.user_id = Admin

\* find_one({event_id, user_id}) is not None
GetUserReviewForEvent(rs, e, u) == \E d \in rs : d.event_id = e /\ d.user_id = u

ReviewStartGuard(r) ==
    /\ rreq[r].pc = "idle"
    /\ IF r = 1 THEN TRUE ELSE rreq[r - 1].pc # "idle"

\* create_review: find_one of the event, NOT_FOUND when there is none
CreateFindEvent(r, u, e, rating) ==
    /\ ReviewStartGuard(r)
    /\ rreq' = StartReview(r,
                  IF e \in event_ids
                  THEN [IdleReview EXCEPT !.pc = "check", !.op = "create", !.user = u,
                                          !.event = e, !.rid = r, !.rating = rating]
                  ELSE ReviewReturns("not_found"))
    /\ UNCHANGED <<reviews, average_rating, review_count>>
    /\ ReviewFrame

\* create_review: get_user_review_for_event, DUPLICATE_ENTRY when one exists
CreateCheckExisting(r) ==
    /\ rreq[r].pc = "check"
    /\ rreq' = [rreq EXCEPT ![r] =
                  IF GetUserReviewForEvent(reviews, rreq[r].event, rreq[r].user)
                  THEN ReviewReturns(DuplicateEntry)
                  ELSE [@ EXCEPT !.pc = "insert"]]
    /\ UNCHANGED <<reviews, average_rating, review_count>>
    /\ ReviewFrame

\* create_review: insert_one
CreateInsert(r) ==
    /\ rreq[r].pc = "insert"
    /\ reviews' = reviews \cup {[id |-> rreq[r].rid, user_id |-> rreq[r].user,
                                 event_id |-> rreq[r].event, rating |-> rreq[r].rating]}
    /\ rreq' = [rreq EXCEPT ![r].pc = "aggregate"]
    /\ UNCHANGED <<average_rating, review_count>>
    /\ ReviewFrame

\* update_review: find_one of the review, NOT_FOUND / FORBIDDEN
UpdateFindReview(r, u, rid, rating) ==
    /\ ReviewStartGuard(r)
    /\ rreq' = StartReview(r,
                  IF \E d \in reviews : d.id = rid /\ d.user_id = u
                  THEN LET d == CHOOSE x \in reviews : x.id = rid
                       IN  [IdleReview EXCEPT !.pc = "set", !.op = "update", !.user = u,
                                              !.event = d.event_id, !.rid = rid,
                                              !.rating = rating]
                  ELSE IF \E d \in reviews : d.id = rid
                  THEN ReviewReturns("forbidden")
                  ELSE ReviewReturns("not_found"))
    /\ UNCHANGED <<reviews, average_rating, review_count>>
    /\ ReviewFrame

\* update_review: update_one $set (no document matched: nothing changes)
UpdateSetRating(r) ==
    /\ rreq[r].pc = "set"
    /\ reviews' = IF rreq[r].rating = NoRating THEN reviews
                  ELSE {IF d.id = rreq[r].rid THEN [d EXCEPT !.rating = rreq[r].rating] ELSE d
                        : d \in reviews}
    /\ rreq' = [rreq EXCEPT ![r].pc =
                  IF rreq[r].rating = NoRating THEN "refetch" ELSE "aggregate"]
    /\ UNCHANGED <<average_rating, review_count>>
    /\ ReviewFrame

\* delete_review: find_one of the review, NOT_FOUND / FORBIDDEN
DeleteFindReview(r, u, rid) ==
    /\ ReviewStartGuard(r)
    /\ rreq' = StartReview(r,
                  IF \E d \in reviews : d.id = rid /\ (u = Admin \/ d.user_id = u)
                  THEN LET d == CHOOSE x \in reviews : x.id = rid
                       IN  [IdleReview EXCEPT !.pc = "delete", !.op = "delete", !.user = u,
                                              !.event = d.event_id, !.rid = rid]
                  ELSE IF \E d \in reviews : d.id = rid
                  THEN ReviewReturns("forbidden")
                  ELSE ReviewReturns("not_found"))
    /\ UNCHANGED <<reviews, average_rating, review_count>>
    /\ ReviewFrame

\* delete_review: delete_one
DeleteOne(r) ==
    /\ rreq[r].pc = "delete"
    /\ reviews' = {d \in reviews : d.id # rreq[r].rid}
    /\ rreq' = [rreq EXCEPT ![r].pc = "aggregate"]
    /\ UNCHANGED <<average_rating, review_count>>
    /\ ReviewFrame

\* _update_event_stats: the aggregation over the reviews collection
AggregateStats(r) ==
    /\ rreq[r].pc = "aggregate"
    /\ LET stats == GetEventAverageRating(reviews, rreq[r].event)
       IN  rreq' = [rreq EXCEPT ![r].pc = "write",
                                ![r].avg = stats.average_rating,
                                ![r].total = stats.total_reviews]
    /\ UNCHANGED <<reviews, average_rating, review_count>>
    /\ ReviewFrame

\* an update_one whose $set carries review_count only
WriteStatsCountOnly(r) ==
    /\ rreq[r].pc = "write"
    /\ review_count' = [review_count EXCEPT ![rreq[r].event] = rreq[r].total]
    /\ rreq' = [rreq EXCEPT ![r] =
                  IF rreq[r].op = "update" THEN [@ EXCEPT !.pc = "refetch"]
                  ELSE IF rreq[r].op = "delete" THEN ReviewReturns("deleted")
                  ELSE ReviewReturns("created")]
    /\ UNCHANGED <<reviews, average_rating>>
    /\ ReviewFrame

\* _update_event_stats: update_one $set of the two fields on the event (no
\* event with that _id: nothing changes)
WriteStats(r) ==
    /\ rreq[r].pc = "write"
    /\ average_rating' = IF rreq[r].event \in event_ids
                         THEN [average_rating EXCEPT ![rreq[r].event] = rreq[r].avg]
                         ELSE average_rating
    /\ review_count' = IF rreq[r].event \in event_ids
                       THEN [review_count EXCEPT ![rreq[r].event] = rreq[r].total]
                       ELSE review_count
    /\ rreq' = [rreq EXCEPT ![r] =
                  IF rreq[r].op = "update" THEN [@ EXCEPT !.pc = "refetch"]
                  ELSE IF rreq[r].op = "delete" THEN ReviewReturns("deleted")
                  ELSE ReviewReturns("created")]
    /\ UNCHANGED reviews
    /\ ReviewFrame

\* update_review: the find_one that builds the response
UpdateRefetch(r) ==
    /\ rreq[r].pc = "refetch"
    /\ rreq' = [rreq EXCEPT ![r] =
                  IF \E d \in reviews : d.id = rreq[r].rid
                  THEN ReviewReturns("updated")
                  ELSE ReviewReturns("error")]
    /\ UNCHANGED <<reviews, average_rating, review_count>>
    /\ ReviewFrame

\* the reviews R with the statistics their events carry when no call is running
InitReviewWith(R) ==
    /\ reviews = R
    /\ average_rating = [e \in Events |-> GetEventAverageRating(R, e).average_rating]
    /\ review_count = [e \in Events |-> GetEventAverageRating(R, e).total_reviews]
    /\ rreq = [r \in ReviewReqs |-> IdleReview]

\* no review yet, or one review of u1
InitReview ==
    \E R \in {{}} \cup {{[id |-> 0, user_id |-> "u1", event_id |-> e, rating |-> x]}
                        : e \in Events, x \in RatingChoices} :
        InitReviewWith(R)

NextReview ==
    \/ \E r \in ReviewReqs, u \in Reviewers, e \in Events \cup {NoEvent}, x \in RatingChoices :
          CreateFindEvent(r, u, e, x)
    \/ \E r \in ReviewReqs : CreateCheckExisting(r)
    \/ \E r \in ReviewReqs : CreateInsert(r)
    \/ \E r \in ReviewReqs, u \in Reviewers, rid \in ReviewIds,
          x \in RatingChoices \cup {NoRating} : UpdateFindReview(r, u, rid, x)
    \/ \E r \in ReviewReqs : UpdateSetRating(r)
    \/ \E r \in ReviewReqs, u \in Reviewers \cup {Admin}, rid \in ReviewIds :
          DeleteFindReview(r, u, rid)
    \/ \E r \in ReviewReqs : DeleteOne(r)
    \/ \E r \in ReviewReqs : AggregateStats(r)
    \/ \E r \in ReviewReqs : WriteStats(r)
    \/ \E r \in ReviewReqs : UpdateRefetch(r)

\* ------------------------------------------------------------------------
\* create_comment / delete_comment / delete_post
\* ------------------------------------------------------------------------
IdleComment == [pc |-> "idle", op |-> "none", user |-> "none", post |-> "none",
                cid |-> NoParent, parent |-> NoParent, res |-> "none"]
DoneComment == [IdleComment EXCEPT !.pc = "done"]

\* the call has returned, or raised, res
CommentReturns(res) == [DoneComment EXCEPT !.res = res]

CommentQuiescent == \A r \in CommentReqs : creq[r].pc \in {"idle", "done"}

CommentStartGuard(r) ==
    /\ creq[r].pc = "idle"
    /\ IF r = 1 THEN TRUE ELSE creq[r - 1].pc # "idle"

\* update_one {"_id": id} {"$inc": {"reply_count": n}} on the comments
\* collection (no document with that _id: nothing changes)
IncReplyCount(cs, id, n) ==
    {IF c.id = id THEN [c EXCEPT !.reply_count = @ + n] ELSE c : c \in cs}

\* update_one {"_id": post} {"$inc": {"comment_count": n}} on the posts
\* collection
IncCommentCount(cc, ids, p, n) ==
    IF p \in ids THEN [cc EXCEPT ![p] = @ + n] ELSE cc

\* a create_comment that inserts the comment before it looks for the post
CreateCommentFindPostInserting(r, u, p, parent) ==
    /\ CommentStartGuard(r)
    /\ comments' = comments \cup {[id |-> r, post_id |-> p, author_id |-> u,
                                   parent_id |-> parent, reply_count |-> 0]}
    /\ creq' = [creq EXCEPT ![r] =
                  IF p \in post_ids
                  THEN [IdleComment EXCEPT !.pc = "inc_post", !.op = "create_comment",
                                           !.user = u, !.post = p, !.cid = r,
                                           !.parent = parent]
                  ELSE CommentReturns("not_found")]
    /\ UNCHANGED <<post_ids, comment_count>>
    /\ CommentFrame

\* create_comment: find_one of the post, NOT_FOUND when there is none
CreateCommentFindPost(r, u, p, parent) ==
    /\ CommentStartGuard(r)
    /\ creq' = [creq EXCEPT ![r] =
                  IF p \in post_ids
                  THEN [IdleComment EXCEPT !.pc = "insert", !.op = "create_comment",
                                           !.user = u, !.post = p, !.cid = r,
                                           !.parent = parent]
                  ELSE CommentReturns("not_found")]
    /\ UNCHANGED <<post_ids, comment_count, comments>>
    /\ CommentFrame

\* create_comment: insert_one of comment_doc
CreateCommentInsert(r) ==
    /\ creq[r].pc = "insert"
    /\ comments' = comments \cup {[id |-> creq[r].cid, post_id |-> creq[r].post,
                                   author_id |-> creq[r].user,
                                   parent_id |-> creq[r].parent, reply_count |-> 0]}
    /\ creq' = [creq EXCEPT ![r].pc = "inc_post"]
    /\ UNCHANGED <<post_ids, comment_count>>
    /\ CommentFrame

\* create_comment: $inc comment_count 1 on the post; a call without
\* parent_id then reads the author and returns
CreateCommentIncPost(r) ==
    /\ creq[r].pc = "inc_post"
    /\ comment_count' = IncCommentCount(comment_count, post_ids, creq[r].post, 1)
    /\ creq' = [creq EXCEPT ![r] = IF creq[r].parent # NoParent
                                   THEN [@ EXCEPT !.pc = "inc_parent"]
                                   ELSE CommentReturns("created")]
    /\ UNCHANGED <<post_ids, comments>>
    /\ CommentFrame

\* create_comment: $inc reply_count 1 on the parent, get_user_info, return
CreateCommentIncParent(r) ==
    /\ creq[r].pc = "inc_parent"
    /\ comments' = IncReplyCount(comments, creq[r].parent, 1)
    /\ creq' = [creq EXCEPT ![r] = CommentReturns("created")]
    /\ UNCHANGED <<post_ids, comment_count>>
    /\ CommentFrame

\* delete_comment: find_one of the comment, NOT_FOUND / FORBIDDEN; post is
\* the post_id of the path, parent the parent_id of the document read
DeleteCommentFind(r, u, p, cid) ==
    /\ CommentStartGuard(r)
    /\ creq' = [creq EXCEPT ![r] =
                  IF \E c \in comments : c.id = cid /\ (u = Admin \/ c.author_id = u)
                  THEN LET c == CHOOSE x \in comments : x.id = cid
                       IN  [IdleComment EXCEPT !.pc = "delete", !.op = "delete_comment",
                                               !.user = u, !.post = p, !.cid = cid,
                                               !.parent = c.parent_id]
                  ELSE IF \E c \in comments : c.id = cid
                  THEN CommentReturns("forbidden")
                  ELSE CommentReturns("not_found")]
    /\ UNCHANGED <<post_ids, comment_count, comments>>
    /\ CommentFrame

\* delete_comment: delete_one
DeleteCommentOne(r) ==
    /\ creq[r].pc = "delete"
    /\ comments' = {c \in comments : c.id # creq[r].cid}
    /\ creq' = [creq EXCEPT ![r].pc = "dec_post"]
    /\ UNCHANGED <<post_ids, comment_count>>
    /\ CommentFrame

\* delete_comment: $inc comment_count -1 on the post of the path
DeleteCommentDecPost(r) ==
    /\ creq[r].pc = "dec_post"
    /\ comment_count' = IncCommentCount(comment_count, post_ids, creq[r].post, -1)
    /\ creq' = [creq EXCEPT ![r] = IF creq[r].parent # NoParent
                                   THEN [@ EXCEPT !.pc = "dec_parent"]
                                   ELSE CommentReturns("deleted")]
    /\ UNCHANGED <<post_ids, comments>>
    /\ CommentFrame

\* delete_comment: $inc reply_count -1 on the parent
DeleteCommentDecParent(r) ==
    /\ creq[r].pc = "dec_parent"
    /\ comments' = IncReplyCount(comments, creq[r].parent, -1)
    /\ creq' = [creq EXCEPT ![r] = CommentReturns("deleted")]
    /\ UNCHANGED <<post_ids, comment_count>>
    /\ CommentFrame

\* delete_post: find_one of the post, NOT_FOUND / FORBIDDEN
DeletePostFind(r, u, p) ==
    /\ CommentStartGuard(r)
    /\ creq' = [creq EXCEPT ![r] =
                  IF p \notin post_ids THEN CommentReturns("not_found")
                  ELSE IF u # PostAuthor /\ u # Admin THEN CommentReturns("forbidden")
                  ELSE [IdleComment EXCEPT !.pc = "delete_post", !.op = "delete_post",
                                           !.user = u, !.post = p]]
    /\ UNCHANGED <<post_ids, comment_count, comments>>
    /\ CommentFrame

\* delete_post: delete_one of the post
DeletePostOne(r) ==
    /\ creq[r].pc = "delete_post"
    /\ post_ids' = post_ids \ {creq[r].post}
    /\ creq' = [creq EXCEPT ![r].pc = "delete_comments"]
    /\ UNCHANGED <<comment_count, comments>>
    /\ CommentFrame

\* delete_post: delete_many of the comments of the post
DeletePostComments(r) ==
    /\ creq[r].pc = "delete_comments"
    /\ comments' = {c \in comments : c.post_id # creq[r].post}
    /\ creq' = [creq EXCEPT ![r] = CommentReturns("deleted")]
    /\ UNCHANGED <<post_ids, comment_count>>
    /\ CommentFrame

\* the comments C on the posts of CPosts, no call running
InitCommentWith(C) ==
    /\ post_ids = CPosts
    /\ comment_count = [p \in CPosts |-> Cardinality({c \in C : c.post_id = p})]
    /\ comments = C
    /\ creq = [r \in CommentReqs |-> IdleComment]

\* no comment yet
InitComment == InitCommentWith({})

\* a comment of u1 on p1 and a reply of u2 to it
FirstComment ==
    [id |-> 0, post_id |-> "p1", author_id |-> "u1", parent_id |-> NoParent, reply_count |-> 1]
FirstReply ==
    [id |-> -1, post_id |-> "p1", author_id |-> "u2", parent_id |-> 0, reply_count |-> 0]

\* no comment, or a comment and its reply
InitComments ==
    \E C \in {{}, {FirstComment, FirstReply}} : InitCommentWith(C)

NextComment ==
    \/ \E r \in CommentReqs, u \in Commenters, p \in CPosts \cup {NoPost},
          parent \in {NoParent, -1, 0} : CreateCommentFindPost(r, u, p, parent)
    \/ \E r \in CommentReqs : CreateCommentInsert(r)
    \/ \E r \in CommentReqs : CreateCommentIncPost(r)
    \/ \E r \in CommentReqs : CreateCommentIncParent(r)
    \/ \E r \in CommentReqs, u \in Commenters \cup {Admin}, p \in CPosts \cup {NoPost},
          cid \in CommentIds : DeleteCommentFind(r, u, p, cid)
    \/ \E r \in CommentReqs : DeleteCommentOne(r)
    \/ \E r \in CommentReqs : DeleteCommentDecPost(r)
    \/ \E r \in CommentReqs : DeleteCommentDecParent(r)
    \/ \E r \in CommentReqs, u \in Commenters, p \in CPosts \cup {NoPost} : DeletePostFind(r, u, p)
    \/ \E r \in CommentReqs : DeletePostOne(r)
    \/ \E r \in CommentReqs : DeletePostComments(r)

\* ------------------------------------------------------------------------
\* delete_by_id of an event
\* ------------------------------------------------------------------------
\* delete_by_id: delete_one of the event, NOT_FOUND when none was deleted;
\* no other collection is touched
DeleteById(event_id) ==
    /\ event_id \in event_ids
    /\ event_ids' = event_ids \ {event_id}
    /\ UNCHANGED reviewVars
    /\ EventFrame

InitEventIds == event_ids = Events

\* ------------------------------------------------------------------------
\* add_participated_event / remove_participated_event, check-ins, and the
\* batch pass migrate_participant_counts
\* ------------------------------------------------------------------------
\* list holds current_events, the list the call read and changed
IdlePart == [pc |-> "idle", op |-> "none", user |-> "none", event |-> "none",
             list |-> <<>>]
\* the call has returned; the record keeps what it was asked to do
PartReturns(op, u, e) == [pc |-> "done", op |-> op, user |-> u, event |-> e, list |-> <<>>]

\* todo are the events the run has still to process, count is the count it
\* read for the first of them; alone tells that nothing was written to
\* the users or the checkins collection since the run began
IdleMig == [pc |-> "idle", todo |-> <<>>, count |-> 0, alone |-> TRUE]

PartStartGuard(r) ==
    /\ preq[r].pc = "idle"
    /\ IF r = 1 THEN TRUE ELSE preq[r - 1].pc # "idle"

\* a write to the users or the checkins collection is seen by a run that
\* has begun
Mutation == IF mig.pc = "idle" THEN mig ELSE [mig EXCEPT !.alone = FALSE]

\* list.remove(x): the first occurrence goes
RECURSIVE Remove(_, _)
Remove(l, x) ==
    IF l = <<>> THEN <<>>
    ELSE IF Head(l) = x THEN Tail(l)
    ELSE <<Head(l)>> \o Remove(Tail(l), x)

\* add_participated_event: the token check, get_by_id, and the test
\* `event_id not in current_events`
AddParticipatedEventRead(r, token_user, u, e) ==
    /\ PartStartGuard(r)
    /\ preq' = [preq EXCEPT ![r] =
                  IF token_user # u THEN PartReturns("forbidden", u, e)
                  ELSE IF ~Contains(participated_events[u], e)
                  THEN [pc |-> "write", op |-> "add", user |-> u, event |-> e,
                        list |-> Append(participated_events[u], e)]
                  ELSE PartReturns("add", u, e)]
    /\ UNCHANGED <<participated_events, checkins, participant_count, mig>>
    /\ PartFrame

\* remove_participated_event: the token check, get_by_id, and the test
\* `event_id in current_events`
RemoveParticipatedEventRead(r, token_user, u, e) ==
    /\ PartStartGuard(r)
    /\ preq' = [preq EXCEPT ![r] =
                  IF token_user # u THEN PartReturns("forbidden", u, e)
                  ELSE IF Contains(participated_events[u], e)
                  THEN [pc |-> "write", op |-> "remove", user |-> u, event |-> e,
                        list |-> Remove(participated_events[u], e)]
                  ELSE PartReturns("remove", u, e)]
    /\ UNCHANGED <<participated_events, checkins, participant_count, mig>>
    /\ PartFrame

\* update_by_id of the user: find_one_and_update with
\* {"$set": {"participated_events": current_events}}
UserUpdateById(r) ==
    /\ preq[r].pc = "write"
    /\ participated_events' = [participated_events EXCEPT ![preq[r].user] = preq[r].list]
    /\ preq' = [preq EXCEPT ![r] = PartReturns(preq[r].op, preq[r].user, preq[r].event)]
    /\ mig' = Mutation
    /\ UNCHANGED <<checkins, participant_count>>
    /\ PartFrame

\* create_checkin: a check-in of the user at the event is inserted unless
\* there is one (find_one, and the unique index on user_id and event_id)
CreateCheckin(u, e) ==
    /\ ~\E c \in checkins : c.user_id = u /\ c.event_id = e
    /\ checkins' = checkins \cup {[user_id |-> u, event_id |-> e]}
    /\ mig' = Mutation
    /\ UNCHANGED <<participated_events, participant_count, preq>>
    /\ PartFrame

\* get_participant_counts: $unwind participated_events, $match, $group with
\* $sum 1, and 0 for the events no user lists
GetParticipantCounts(pe, E) ==
    [e \in E |-> Cardinality({<<u, i>> \in Participants \X (1..Cardinality(PartEvents) + MaxPartReqs) :
                                 i <= Len(pe[u]) /\ pe[u][i] = e})]

\* checkin_collection.count_documents({"event_id": event_id})
CountCheckins(cs, e) == Cardinality({c \in cs : c.event_id = e})

\* migrate_participant_counts: find of all events
MigrateFind ==
    /\ mig.pc = "idle"
    /\ mig' = [pc |-> "count", todo |-> SetToSeq(PartEvents), count |-> 0, alone |-> TRUE]
    /\ UNCHANGED <<participated_events, checkins, participant_count, preq>>
    /\ PartFrame

\* migrate_participant_counts: the count for the next event
MigrateCount ==
    /\ mig.pc = "count"
    /\ mig' = [mig EXCEPT !.pc = "update",
                          !.count = CountCheckins(checkins, mig.todo[1])]
    /\ UNCHANGED <<participated_events, checkins, participant_count, preq>>
    /\ PartFrame

\* migrate_participant_counts: update_one $set participant_count, then the
\* next event, or the end of the run
MigrateUpdate ==
    /\ mig.pc = "update"
    /\ participant_count' = [participant_count EXCEPT ![mig.todo[1]] = mig.count]
    /\ mig' = [mig EXCEPT !.pc = IF Len(mig.todo) = 1 THEN "done" ELSE "count",
                          !.todo = Tail(mig.todo)]
    /\ UNCHANGED <<participated_events, checkins, preq>>
    /\ PartFrame

\* the users with the lists pe, no check-in, the counts as stored at
\* creation, no call running
InitParticipationWith(pe) ==
    /\ participated_events = pe
    /\ checkins = {}
    /\ participant_count = [e \in PartEvents |-> 0]
    /\ preq = [r \in PartReqs |-> IdlePart]
    /\ mig = IdleMig

InitParticipation == InitParticipationWith([u \in Participants |-> <<>>])

\* the features above at rest, in the state of a fresh database
InitAtRest == InitComment /\ InitEventIds /\ InitParticipation

\* ------------------------------------------------------------------------
\* The public listings of events and posts
\* ------------------------------------------------------------------------
\* Strings are sequences of characters, a character outside ASCII written
\* by its code point ("U+00F4").
\* str.lower() on the characters the model uses
Lower(c) ==
    CASE c = "A" -> "a"
      [] c = "B" -> "b"
      [] c = "C" -> "c"
      [] c = "I" -> "i"
      [] c = "N" -> "n"
      [] OTHER -> c

LowerStr(s) == [i \in 1..Len(s) |-> Lower(s[i])]

\* Python `a in b` on strings
IsSubstring(a, b) ==
    \E i \in 0..(Len(b) - Len(a)) : SubSeq(b, i + 1, i + Len(a)) = a

\* one pattern character of a regular expression with option "i" against one
\* character of the subject: "." stands for any character
RegexCharMatches(p, c) == p = "." \/ Lower(p) = Lower(c)

\* {"$regex": pat, "$options": "i"}: the pattern matches somewhere in s
RegexSearch(pat, s) ==
    \E i \in 0..(Len(s) - Len(pat)) :
        \A k \in 1..Len(pat) : RegexCharMatches(pat[k], s[i + k])

\* {"$regex": "^pat$", "$options": "i"}
RegexFullMatch(pat, s) ==
    /\ Len(pat) = Len(s)
    /\ \A k \in 1..Len(pat) : RegexCharMatches(pat[k], s[k])

\* an event document; is_visible is "true", "false" or "absent" (no such
\* field), coords is location.coordinates.coordinates, <<>> when
\* location.coordinates is missing or null; wellformed tells that
\* EventBaseResponse(**event) accepts the document
EventDoc(i) ==
    [id |-> i, created_at |-> i, updated_at |-> 0, is_visible |-> "true",
     wellformed |-> TRUE,
     name |-> <<"a">>, intro |-> <<>>, history |-> <<>>,
     city |-> <<>>, province |-> <<>>, categories |-> <<>>, coords |-> <<>>]

\* a post document
PostDoc(i) == [id |-> i, created_at |-> i, visibility |-> "public"]

\* a filter that keeps the events marked visible only
VisibilityFilterMarkedOnly(d) == d.is_visible = "true"

\* {"$or": [{"is_visible": True}, {"is_visible": {"$exists": False}}]}
VisibilityFilter(d) == d.is_visible = "true" \/ d.is_visible = "absent"

\* the parameters of search_events; None and the empty string, or list, are
\* both <<>>: the code tests them with `if query:`
NoFilter == [query |-> <<>>, city |-> <<>>, province |-> <<>>, categories |-> <<>>]

\* final_filter of search_events
SearchFilter(d, f) ==
    /\ VisibilityFilter(d)
    /\ f.query # <<>> =>
          \/ RegexSearch(f.query, d.name)
          \/ RegexSearch(f.query, d.intro)
          \/ RegexSearch(f.query, d.history)
    /\ f.city # <<>> => RegexSearch(f.city, d.city)
    /\ f.province # <<>> => RegexSearch(f.province, d.province)
    /\ f.categories # <<>> =>
          \E i \in 1..Len(f.categories), j \in 1..Len(d.categories) :
              RegexFullMatch(f.categories[i], d.categories[j])

\* stable insertion of x into the sequence s sorted by ascending key
RECURSIVE InsertByKey(_, _)
InsertByKey(s, x) ==
    IF s = <<>> THEN <<x>>
    ELSE IF s[Len(s)].key <= x.key THEN Append(s, x)
    ELSE Append(InsertByKey(SubSeq(s, 1, Len(s) - 1), x), s[Len(s)])

\* list.sort(key=...): ascending and stable
RECURSIVE SortByKey(_)
SortByKey(s) ==
    IF s = <<>> THEN <<>>
    ELSE InsertByKey(SortByKey(SubSeq(s, 1, Len(s) - 1)), s[Len(s)])

\* cursor.sort("created_at", -1)
SortNewestFirst(docs) ==
    LET keyed  == [i \in 1..Len(docs) |-> [key |-> 0 - docs[i].created_at, doc |-> docs[i]]]
        sorted == SortByKey(keyed)
    IN  [i \in 1..Len(sorted) |-> sorted[i].doc]

\* a skip that starts at the end of the requested page
SkipFromPageEnd(page, page_size) == page * page_size

\* skip = (page - 1) * page_size
Skip(page, page_size) == (page - 1) * page_size

\* cursor.skip(n).limit(m); list[:m] with n = 0
SkipLimit(docs, n, m) ==
    SubSeq(docs, n + 1, IF Len(docs) < n + m THEN Len(docs) ELSE n + m)

\* the ids of the documents the response keeps: those EventBaseResponse accepts
Responses(docs) ==
    LET ok == SelectSeq(docs, LAMBDA d : d.wellformed)
    IN  [i \in 1..Len(ok) |-> ok[i].id]

\* the arguments of a call, none here
NoArgs == [none |-> TRUE]

IdleCall == [pc |-> "idle", op |-> "none", page |-> 0, page_size |-> 0,
             include_hidden |-> FALSE, filter |-> NoFilter, total |-> 0,
             items |-> <<>>, has_more |-> FALSE, args |-> NoArgs]

NoResp == [op |-> "none", page |-> 0, page_size |-> 0, include_hidden |-> FALSE,
           filter |-> NoFilter, total |-> 0, items |-> <<>>, has_more |-> FALSE,
           error |-> "none", args |-> NoArgs, scores |-> <<>>]

\* get_all: count_documents(filter_dict)
GetAllCount(page, page_size, include_hidden) ==
    /\ call.pc = "idle"
    /\ call' = [IdleCall EXCEPT
                  !.pc = "find", !.op = "get_all", !.page = page,
                  !.page_size = page_size, !.include_hidden = include_hidden,
                  !.total = Len(SelectSeq(events,
                               LAMBDA d : include_hidden \/ VisibilityFilter(d)))]
    /\ UNCHANGED <<events, posts, hobbies, resp>>
    /\ ListFrame

\* get_all: what find, sort, skip and limit return of the collection docs,
\* as responses
GetAllItems(docs, page, page_size, include_hidden) ==
    LET found == SelectSeq(docs, LAMBDA d : include_hidden \/ VisibilityFilter(d))
    IN  Responses(SkipLimit(SortNewestFirst(found), Skip(page, page_size), page_size))

\* get_all: find, sort, skip, limit, and the response with its metadata
GetAllFind ==
    /\ call.pc = "find"
    /\ call.op = "get_all"
    /\ resp' = [NoResp EXCEPT
                  !.op = "get_all", !.page = call.page,
                  !.page_size = call.page_size,
                  !.include_hidden = call.include_hidden,
                  !.total = call.total,
                  !.items = GetAllItems(events, call.page, call.page_size,
                                        call.include_hidden),
                  !.has_more = (call.total > call.page * call.page_size)]
    /\ call' = IdleCall
    /\ UNCHANGED <<events, posts, hobbies>>
    /\ ListFrame

\* search_events: count_documents(final_filter)
SearchCount(page, page_size, f) ==
    /\ call.pc = "idle"
    /\ call' = [IdleCall EXCEPT
                  !.pc = "find", !.op = "search_events", !.page = page,
                  !.page_size = page_size, !.filter = f,
                  !.total = Len(SelectSeq(events, LAMBDA d : SearchFilter(d, f)))]
    /\ UNCHANGED <<events, posts, hobbies, resp>>
    /\ ListFrame

\* search_events: what find, sort, skip and limit return of the collection
\* docs, as responses
SearchItems(docs, page, page_size, f) ==
    LET found == SelectSeq(docs, LAMBDA d : SearchFilter(d, f))
    IN  Responses(SkipLimit(SortNewestFirst(found), Skip(page, page_size), page_size))

\* search_events: find, sort, skip, limit, and the response with its metadata
SearchFind ==
    /\ call.pc = "find"
    /\ call.op = "search_events"
    /\ resp' = [NoResp EXCEPT
                  !.op = "search_events", !.page = call.page,
                  !.page_size = call.page_size, !.filter = call.filter,
                  !.total = call.total,
                  !.items = SearchItems(events, call.page, call.page_size, call.filter),
                  !.has_more = (call.total > call.page * call.page_size)]
    /\ call' = IdleCall
    /\ UNCHANGED <<events, posts, hobbies>>
    /\ ListFrame

\* get_feed: find of the public posts, one more than the page, has_more
\* from the length of what came back
GetFeedFind(page, page_size) ==
    /\ call.pc = "idle"
    /\ LET found == SelectSeq(posts, LAMBDA d : d.visibility = "public")
           got   == SkipLimit(SortNewestFirst(found),
                              Skip(page, page_size), page_size + 1)
           kept  == SkipLimit(got, 0, page_size)
       IN  call' = [IdleCall EXCEPT
                      !.pc = "count", !.op = "get_feed", !.page = page,
                      !.page_size = page_size,
                      !.items = [i \in 1..Len(kept) |-> kept[i].id],
                      !.has_more = (Len(got) > page_size)]
    /\ UNCHANGED <<events, posts, hobbies, resp>>
    /\ ListFrame

\* get_feed: count_documents and the response
GetFeedCount ==
    /\ call.pc = "count"
    /\ call.op = "get_feed"
    /\ resp' = [NoResp EXCEPT
                  !.op = "get_feed", !.page = call.page, !.page_size = call.page_size,
                  !.total = Len(SelectSeq(posts, LAMBDA d : d.visibility = "public")),
                  !.items = call.items, !.has_more = call.has_more]
    /\ call' = IdleCall
    /\ UNCHANGED <<events, posts, hobbies>>
    /\ ListFrame

\* the collections as given, no listing request in flight
InitStore(E, P, H) ==
    /\ events = E
    /\ posts = P
    /\ hobbies = H
    /\ call = IdleCall
    /\ resp = NoResp

\* users without hobbies
InitListWith(E, P) == InitStore(E, P, [u \in Users |-> <<>>])

\* empty collections
InitList == InitListWith(<<>>, <<>>)

\* n documents, the newest last, of which document h, if any, is hidden
\* (events) or private (posts), and document b, if any, does not validate
PageEvents(n, h, b) ==
    [i \in 1..n |-> [EventDoc(i) EXCEPT
                       !.is_visible = IF i = h THEN "false" ELSE "true",
                       !.wellformed = (i # b)]]

PagePosts(n, h) ==
    [i \in 1..n |-> [PostDoc(i) EXCEPT
                       !.visibility = IF i = h THEN "private" ELSE "public"]]

InitPage ==
    /\ InitLikeWith({}) /\ InitFollow /\ InitAtRest /\ InitReviewWith({})
    /\ \E n \in 0..MaxItems, h \in {0, 2}, b \in {0, 3} :
          InitListWith(PageEvents(n, h, b), PagePosts(n, h))

NextPage ==
    \/ \E page \in 1..MaxPage, page_size \in PageSizes, include_hidden \in BOOLEAN :
          GetAllCount(page, page_size, include_hidden)
    \/ GetAllFind
    \/ \E page \in 1..MaxPage, page_size \in PageSizes :
          SearchCount(page, page_size, NoFilter)
    \/ SearchFind
    \/ \E page \in 1..MaxPage, page_size \in PageSizes : GetFeedFind(page, page_size)
    \/ GetFeedCount

\* code points of the characters the model uses (Python compares strings
\* by code point)
Ord(c) ==
    CASE c = " " -> 32
      [] c = "." -> 46
      [] c = "A" -> 65
      [] c = "B" -> 66
      [] c = "C" -> 67
      [] c = "I" -> 73
      [] c = "N" -> 78
      [] c = "a" -> 97
      [] c = "b" -> 98
      [] c = "c" -> 99
      [] c = "d" -> 100
      [] c = "g" -> 103
      [] c = "h" -> 104
      [] c = "i" -> 105
      [] c = "k" -> 107
      [] c = "l" -> 108
      [] c = "m" -> 109
      [] c = "n" -> 110
      [] c = "o" -> 111
      [] c = "p" -> 112
      [] c = "r" -> 114
      [] c = "s" -> 115
      [] c = "t" -> 116
      [] c = "u" -> 117
      [] c = "v" -> 118
      [] c = "y" -> 121
      [] c = "U+00E1" -> 225
      [] c = "U+00E2" -> 226
      [] c = "U+00E3" -> 227
      [] c = "U+00F3" -> 243
      [] c = "U+00F4" -> 244
      [] c = "U+00F9" -> 249
      [] c = "U+0103" -> 259
      [] c = "U+0111" -> 273
      [] c = "U+01B0" -> 432
      [] c = "U+1EA1" -> 7841
      [] c = "U+1EA5" -> 7845
      [] c = "U+1EA9" -> 7849
      [] c = "U+1EAD" -> 7853
      [] c = "U+1EC1" -> 7873
      [] c = "U+1EC3" -> 7875
      [] c = "U+1EC5" -> 7877
      [] c = "U+1EC7" -> 7879
      [] c = "U+1ECB" -> 7883
      [] c = "U+1ECD" -> 7885
      [] c = "U+1ED1" -> 7889
      [] c = "U+1ED9" -> 7897
      [] c = "U+1EE3" -> 7907
      [] c = "U+1EF1" -> 7921
      [] OTHER -> 0

\* related_pairs of are_related_keywords
RelatedPairs ==
    { <<<<"v", "U+0103", "n", " ", "h", "U+00F3", "a">>,
        <<"l", "U+1EC5", " ", "h", "U+1ED9", "i">>>>,
      <<<<"v", "U+0103", "n", " ", "h", "U+00F3", "a">>,
        <<"t", "r", "u", "y", "U+1EC1", "n", " ", "t", "h", "U+1ED1", "n", "g">>>>,
      <<<<"U+00E2", "m", " ", "n", "h", "U+1EA1", "c">>,
        <<"c", "a", " ", "n", "h", "U+1EA1", "c">>>>,
      <<<<"U+00E2", "m", " ", "n", "h", "U+1EA1", "c">>,
        <<"n", "h", "U+1EA1", "c", " ", "s", "U+1ED1", "n", "g">>>>,
      <<<<"t", "h", "U+1EC3", " ", "t", "h", "a", "o">>,
        <<"b", "U+00F3", "n", "g", " ", "U+0111", "U+00E1">>>>,
      <<<<"t", "h", "U+1EC3", " ", "t", "h", "a", "o">>,
        <<"c", "h", "U+1EA1", "y", " ", "b", "U+1ED9">>>>,
      <<<<"n", "g", "h", "U+1EC7", " ", "t", "h", "u", "U+1EAD", "t">>,
        <<"h", "U+1ED9", "i", " ", "h", "U+1ECD", "a">>>>,
      <<<<"n", "g", "h", "U+1EC7", " ", "t", "h", "u", "U+1EAD", "t">>,
        <<"t", "r", "i", "U+1EC3", "n", " ", "l", "U+00E3", "m">>>>,
      <<<<"U+1EA9", "m", " ", "t", "h", "U+1EF1", "c">>,
        <<"m", "U+00F3", "n", " ", "U+0103", "n">>>>,
      <<<<"U+1EA9", "m", " ", "t", "h", "U+1EF1", "c">>,
        <<"n", "U+1EA5", "u", " ", "U+0103", "n">>>>,
      <<<<"d", "u", " ", "l", "U+1ECB", "c", "h">>,
        <<"k", "h", "U+00E1", "m", " ", "p", "h", "U+00E1">>>>,
      <<<<"d", "u", " ", "l", "U+1ECB", "c", "h">>,
        <<"p", "h", "U+01B0", "U+1EE3", "t">>>>,
      <<<<"t", "U+00E2", "m", " ", "l", "i", "n", "h">>,
        <<"t", "h", "i", "U+1EC1", "n">>>>,
      <<<<"t", "U+00E2", "m", " ", "l", "i", "n", "h">>,
        <<"c", "h", "U+00F9", "a">>>>,
      <<<<"c", "U+00F4", "n", "g", " ", "n", "g", "h", "U+1EC7">>,
        <<"k", "h", "o", "a", " ", "h", "U+1ECD", "c">>>>,
      <<<<"c", "U+00F4", "n", "g", " ", "n", "g", "h", "U+1EC7">>,
        <<"A", "I">>>> }

\* str.strip(): leading and trailing blanks removed
RECURSIVE Strip(_)
Strip(s) ==
    IF s = <<>> THEN s
    ELSE IF s[1] = " " THEN Strip(Tail(s))
    ELSE IF s[Len(s)] = " " THEN Strip(SubSeq(s, 1, Len(s) - 1))
    ELSE s

\* Python `a < b` on strings
RECURSIVE StrLess(_, _)
StrLess(a, b) ==
    IF b = <<>> THEN FALSE
    ELSE IF a = <<>> THEN TRUE
    ELSE IF Ord(a[1]) # Ord(b[1]) THEN Ord(a[1]) < Ord(b[1])
    ELSE StrLess(Tail(a), Tail(b))

\* are_related_keywords: pair = tuple(sorted([word1, word2]));
\* pair in related_pairs or tuple(reversed(pair)) in related_pairs
AreRelatedKeywords(word1, word2) ==
    LET pair == IF StrLess(word2, word1) THEN <<word2, word1>> ELSE <<word1, word2>>
    IN  pair \in RelatedPairs \/ <<pair[2], pair[1]>> \in RelatedPairs

\* the points one (hobby, category) pair adds
PairScore(hobby, category) ==
    IF hobby = category THEN 10
    ELSE IF IsSubstring(hobby, category) \/ IsSubstring(category, hobby) THEN 5
    ELSE IF AreRelatedKeywords(hobby, category) THEN 2
    ELSE 0

\* the two nested loops: every hobby against every category, in order
RECURSIVE SumPairs(_, _, _, _)
SumPairs(hs, cs, i, j) ==
    IF i > Len(hs) THEN 0
    ELSE IF j > Len(cs) THEN SumPairs(hs, cs, i + 1, 1)
    ELSE PairScore(hs[i], cs[j]) + SumPairs(hs, cs, i, j + 1)

\* calculate_relevance_score
CalculateRelevanceScore(user_hobbies, event_categories) ==
    IF user_hobbies = <<>> \/ event_categories = <<>> THEN 0
    ELSE LET hobbies_lower    == [i \in 1..Len(user_hobbies) |->
                                    Strip(LowerStr(user_hobbies[i]))]
             categories_lower == [i \in 1..Len(event_categories) |->
                                    Strip(LowerStr(event_categories[i]))]
         IN  SumPairs(hobbies_lower, categories_lower, 1, 1)

\* the words requests and documents use: two table entries, in the case of
\* the table and in others, padded, a word inside another, the empty word
W_ai == <<"a", "i">>
W_AI == <<"A", "I">>
W_cong_nghe == <<"c", "U+00F4", "n", "g", " ", "n", "g", "h", "U+1EC7">>
W_Cong_Nghe == <<" ", "C", "U+00F4", "n", "g", " ", "N", "g", "h", "U+1EC7", " ">>
W_cong == <<"c", "U+00F4", "n", "g">>
W_thien == <<"t", "h", "i", "U+1EC1", "n">>
W_tam_linh == <<"t", "U+00E2", "m", " ", "l", "i", "n", "h">>
Words == {W_ai, W_AI, W_cong_nghe, W_Cong_Nghe, W_cong, W_thien, W_tam_linh, <<>>}

\* the lists of at most n words
RECURSIVE WordLists(_)
WordLists(n) ==
    IF n = 0 THEN {<<>>}
    ELSE LET shorter == WordLists(n - 1)
         IN  shorter \cup {Append(l, w) : l \in shorter, w \in Words}

\* calculate_relevance_score applied to h1 + h2, to h1 and to h2, the
\* arguments of the pending call
ScoreCall ==
    /\ call.pc = "score"
    /\ LET h1 == call.args.h1
           h2 == call.args.h2
           t  == call.args.tags
       IN  resp' = [NoResp EXCEPT
                      !.op = "calculate_relevance_score",
                      !.args = call.args,
                      !.scores = <<CalculateRelevanceScore(h1 \o h2, t),
                                   CalculateRelevanceScore(h1, t),
                                   CalculateRelevanceScore(h2, t)>>]
    /\ call' = IdleCall
    /\ UNCHANGED <<events, posts, hobbies>>
    /\ ListFrame

\* number of words of the lists the scorer is applied to
MaxWords == 1

\* a call of the scorer is pending, on lists of the words above
InitScore ==
    /\ InitLikeWith({}) /\ InitFollow /\ InitAtRest /\ InitReviewWith({})
    /\ events = <<>>
    /\ posts = <<>>
    /\ hobbies = [u \in Users |-> <<>>]
    /\ resp = NoResp
    /\ \E h1 \in WordLists(MaxWords), h2 \in WordLists(MaxWords),
          t \in WordLists(MaxWords + 1) :
          call = [IdleCall EXCEPT !.pc = "score",
                                  !.args = [h1 |-> h1, h2 |-> h2, tags |-> t]]

NextScore == ScoreCall


\* a descending sort made of an ascending sort and a reversal: equal
\* scores come out in reverse input order
SortByScoreReversed(scored) ==
    LET keyed  == [i \in 1..Len(scored) |-> [key |-> scored[i].score, item |-> scored[i]]]
        sorted == SortByKey(keyed)
    IN  [i \in 1..Len(sorted) |-> sorted[Len(sorted) + 1 - i].item]

\* scored_events.sort(key=lambda x: x["score"], reverse=True): descending,
\* equal scores in input order
SortByScoreDescending(scored) ==
    LET keyed  == [i \in 1..Len(scored) |-> [key |-> 0 - scored[i].score, item |-> scored[i]]]
        sorted == SortByKey(keyed)
    IN  [i \in 1..Len(sorted) |-> sorted[i].item]

\* rank_events_by_relevance: the copies of the events, relevance_score set
\* when include_score, in the order of the sort
RankEventsByRelevance(docs, user_hobbies, include_score) ==
    LET scored_events ==
            [i \in 1..Len(docs) |->
                LET score == CalculateRelevanceScore(user_hobbies, docs[i].categories)
                IN  [event |-> [doc |-> docs[i], has_score |-> include_score,
                                relevance_score |-> IF include_score THEN score ELSE 0],
                     score |-> score]]
        sorted == SortByScoreDescending(scored_events)
    IN  [i \in 1..Len(sorted) |-> sorted[i].event]

\* e.get("relevance_score", 0)
GetRelevanceScore(e) == IF e.has_score THEN e.relevance_score ELSE 0

\* rank_events_by_relevance applied to the events collection as a list
RankEvents(user_hobbies, include_score) ==
    /\ call.pc = "idle"
    /\ LET ranked == RankEventsByRelevance(events, user_hobbies, include_score)
       IN  resp' = [NoResp EXCEPT
                      !.op = "rank_events_by_relevance",
                      !.args = [hobbies |-> user_hobbies, include_score |-> include_score],
                      !.items = [i \in 1..Len(ranked) |-> ranked[i].doc.id]]
    /\ UNCHANGED <<events, posts, hobbies, call>>
    /\ ListFrame

\* get_recommended_events: find of the visible events, ranking, the events
\* of positive relevance_score cut to limit, and the response
GetRecommendedEventsAnswer(docs, user_hobbies, limit, include_score) ==
    LET found         == SelectSeq(docs, VisibilityFilter)
        ranked_events == RankEventsByRelevance(found, user_hobbies, include_score)
        recommended   == SkipLimit(SelectSeq(ranked_events,
                                             LAMBDA e : GetRelevanceScore(e) > 0),
                                   0, limit)
        kept          == SelectSeq(recommended, LAMBDA e : e.doc.wellformed)
    IN  [NoResp EXCEPT
           !.op = "get_recommended_events",
           !.args = [hobbies |-> user_hobbies, limit |-> limit,
                     include_score |-> include_score],
           !.total = Len(recommended), !.page = 1, !.page_size = Len(recommended),
           !.items = [i \in 1..Len(kept) |-> kept[i].doc.id],
           !.has_more = (Len(ranked_events) > limit)]

GetRecommendedEvents(user_hobbies, limit, include_score) ==
    /\ call.pc = "idle"
    /\ resp' = GetRecommendedEventsAnswer(events, user_hobbies, limit, include_score)
    /\ UNCHANGED <<events, posts, hobbies, call>>
    /\ ListFrame

\* the parameters of EventMongoService.get_all
GetAllParameters == {"page", "page_size", "include_hidden", "user_id"}

\* a Python call binds its keyword arguments to parameters of those names,
\* and raises TypeError on any other
CallAccepts(parameters, keywords) == keywords \subseteq parameters

\* page_size: int = 20
DefaultPageSize == 20

\* get_recommendations: user_service.get_by_id, NOT_FOUND without the user
RecommendationsGetUser(u, limit) ==
    /\ call.pc = "idle"
    /\ IF u \in DOMAIN hobbies
       THEN /\ call' = [IdleCall EXCEPT
                          !.pc = "recommend", !.op = "get_recommendations",
                          !.args = [user |-> u, limit |-> limit, hobbies |-> hobbies[u]]]
            /\ UNCHANGED resp
       ELSE /\ resp' = [NoResp EXCEPT
                          !.op = "get_recommendations", !.error = "not_found",
                          !.args = [user |-> u, limit |-> limit, hobbies |-> <<>>]]
            /\ UNCHANGED call
    /\ UNCHANGED <<events, posts, hobbies>>
    /\ ListFrame

\* get_recommendations, no hobbies: event_service.get_all(limit=limit); the
\* exception of the call is answered as an error
RecommendationsFallback ==
    /\ call.pc = "recommend"
    /\ call.args.hobbies = <<>>
    /\ IF CallAccepts(GetAllParameters, {"limit"})
       THEN /\ call' = [IdleCall EXCEPT
                          !.pc = "find", !.op = "get_all", !.page = 1,
                          !.page_size = DefaultPageSize,
                          !.total = Len(SelectSeq(events, VisibilityFilter))]
            /\ UNCHANGED resp
       ELSE /\ resp' = [NoResp EXCEPT
                          !.op = "get_recommendations", !.args = call.args,
                          !.error = "error"]
            /\ call' = IdleCall
    /\ UNCHANGED <<events, posts, hobbies>>
    /\ ListFrame

\* get_recommendations, with hobbies: get_recommended_events, scores included
RecommendationsRanked ==
    /\ call.pc = "recommend"
    /\ call.args.hobbies # <<>>
    /\ resp' = [GetRecommendedEventsAnswer(events, call.args.hobbies, call.args.limit, TRUE)
                  EXCEPT !.op = "get_recommendations", !.args = call.args]
    /\ call' = IdleCall
    /\ UNCHANGED <<events, posts, hobbies>>
    /\ ListFrame

\* the category lists of the events that are ranked, and the hobby lists
CategoryChoices == {<<>>, <<W_thien>>, <<W_tam_linh>>}
HobbyChoices == {<<W_thien>>, <<W_tam_linh>>, <<W_thien, W_tam_linh>>}

\* number of events that are ranked
MaxRankEvents == 4

\* the lists of at most n events, their ids 1, 2, ..., with the categories,
\* visibility flags and validity of the sets given
RECURSIVE EventLists(_, _, _, _)
EventLists(n, cats, flags, valid) ==
    IF n = 0 THEN {<<>>}
    ELSE LET shorter == EventLists(n - 1, cats, flags, valid)
         IN  shorter \cup
             {Append(l, [EventDoc(n) EXCEPT !.categories = c, !.is_visible = f,
                                            !.wellformed = w])
                : l \in {x \in shorter : Len(x) = n - 1},
                  c \in cats, f \in flags, w \in valid}

InitRank ==
    /\ InitLikeWith({}) /\ InitFollow /\ InitAtRest /\ InitReviewWith({})
    /\ \E E \in EventLists(MaxRankEvents, CategoryChoices, {"true"}, {TRUE}) :
          InitListWith(E, <<>>)

NextRank ==
    \E h \in HobbyChoices, include_score \in BOOLEAN : RankEvents(h, include_score)

\* number of events that are recommended from, and the limits asked for
MaxRecEvents == 3
Limits == {1, 2}

InitRecommend ==
    /\ InitLikeWith({}) /\ InitFollow /\ InitAtRest /\ InitReviewWith({})
    /\ \E E \in EventLists(MaxRecEvents, CategoryChoices,
                           {"true", "false", "absent"}, BOOLEAN) :
          InitStore(E, <<>>, [u \in {"u1", "u2"} |->
                                 IF u = "u1" THEN <<>> ELSE <<W_thien>>])

NextRecommend ==
    \/ \E h \in HobbyChoices, limit \in Limits, include_score \in BOOLEAN :
          GetRecommendedEvents(h, limit, include_score)
    \/ \E u \in Users, limit \in Limits : RecommendationsGetUser(u, limit)
    \/ RecommendationsFallback
    \/ RecommendationsRanked


\* calculate_distance.  The events and the centers of the model lie on one
\* meridian, where the haversine formula gives the length of the arc
\* between the two latitudes; latitudes are in metres of arc, and so is the
\* distance.
CalculateDistance(lat1, lng1, lat2, lng2) ==
    IF lat2 >= lat1 THEN lat2 - lat1 ELSE lat1 - lat2

\* round(distance, 2) of a distance in km: the nearest multiple of 10 m, in
\* metres (a tie goes to the even multiple)
RoundHundredths(m) ==
    LET q   == m \div 10
        rem == m % 10
    IN  IF rem < 5 THEN 10 * q
        ELSE IF rem > 5 THEN 10 * (q + 1)
        ELSE IF q % 2 = 0 THEN 10 * q ELSE 10 * (q + 1)

\* event["distance_km"], the key nearby_events is sorted by
DistanceKm(distance) == RoundHundredths(distance)

\* {"location.coordinates": {"$ne": None}} and the visibility filter
NearbyFilter(d) == d.coords # <<>> /\ VisibilityFilter(d)

\* get_nearby_events: nearby_events, from the find over the collection docs
\* to the cut to limit
NearbyEvents(docs, lat, lng, radius, limit) ==
    LET found  == SelectSeq(docs, NearbyFilter)
        within == SelectSeq(found,
                     LAMBDA d : /\ Len(d.coords) = 2
                                /\ CalculateDistance(lat, lng, d.coords[2], d.coords[1])
                                     <= radius)
        keyed  == [i \in 1..Len(within) |->
                     [key |-> DistanceKm(CalculateDistance(lat, lng,
                                  within[i].coords[2], within[i].coords[1])),
                      doc |-> within[i]]]
        sorted == SortByKey(keyed)
    IN  SkipLimit([i \in 1..Len(sorted) |-> sorted[i].doc], 0, limit)

\* get_nearby_events: find, the events within the radius with their
\* distance, the sort, the cut to limit, and the response
GetNearbyEvents(lat, lng, radius, limit) ==
    /\ call.pc = "idle"
    /\ LET nearby_events == NearbyEvents(events, lat, lng, radius, limit)
       IN  resp' = [NoResp EXCEPT
                      !.op = "get_nearby_events",
                      !.args = [lat |-> lat, lng |-> lng, radius |-> radius, limit |-> limit],
                      !.total = Len(nearby_events), !.page = 1,
                      !.page_size = Len(nearby_events),
                      !.items = Responses(nearby_events)]
    /\ UNCHANGED <<events, posts, hobbies, call>>
    /\ ListFrame

\* number of events with a location
MaxNearEvents == 3

\* location.coordinates of the events: none, a point without latitude, and
\* points 1001 m, 1004 m, 1012 m and 3 km north of the origin
CoordChoices == {<<>>, <<0>>, <<0, 1001>>, <<0, 1004>>, <<0, 1012>>, <<0, 3000>>}

RECURSIVE NearEventLists(_)
NearEventLists(n) ==
    IF n = 0 THEN {<<>>}
    ELSE LET shorter == NearEventLists(n - 1)
         IN  shorter \cup
             {Append(l, [EventDoc(n) EXCEPT !.coords = c, !.is_visible = f])
                : l \in {x \in shorter : Len(x) = n - 1},
                  c \in CoordChoices, f \in {"true", "false"}}

InitNearby ==
    /\ InitLikeWith({}) /\ InitFollow /\ InitAtRest /\ InitReviewWith({})
    /\ \E E \in NearEventLists(MaxNearEvents) : InitListWith(E, <<>>)

\* centers at the origin and 2 km north of it, radii of 1010 m and 5 km
NextNearby ==
    \E lat \in {0, 2000}, radius \in {1010, 5000}, limit \in Limits :
        GetNearbyEvents(lat, 0, radius, limit)


\* get_by_category: find with {"categories": category} and the visibility
\* filter, in natural order, as responses
ByCategoryItems(docs, category) ==
    Responses(SelectSeq(docs,
        LAMBDA d : /\ \E j \in 1..Len(d.categories) : d.categories[j] = category
                   /\ VisibilityFilter(d)))

GetByCategory(category) ==
    /\ call.pc = "idle"
    /\ resp' = [NoResp EXCEPT
                  !.op = "get_by_category", !.args = [category |-> category],
                  !.total = Len(SelectSeq(events,
                      LAMBDA d : /\ \E j \in 1..Len(d.categories) : d.categories[j] = category
                                 /\ VisibilityFilter(d))),
                  !.items = ByCategoryItems(events, category)]
    /\ UNCHANGED <<events, posts, hobbies, call>>
    /\ ListFrame

\* toggle_visibility: find_one_and_update with $set of is_visible and
\* updated_at (1: later than the creation), NOT_FOUND without the event;
\* the answer is the updated event, if it validates
ToggleVisibility(id, is_visible) ==
    /\ IF \E i \in 1..Len(events) : events[i].id = id
       THEN /\ events' = [i \in 1..Len(events) |->
                            IF events[i].id = id
                            THEN [events[i] EXCEPT
                                    !.is_visible = IF is_visible THEN "true" ELSE "false",
                                    !.updated_at = 1]
                            ELSE events[i]]
            /\ resp' = [NoResp EXCEPT
                          !.op = "toggle_visibility",
                          !.args = [id |-> id, is_visible |-> is_visible],
                          !.items = <<id>>,
                          !.error = IF \E i \in 1..Len(events) :
                                         events[i].id = id /\ events[i].wellformed
                                    THEN "none" ELSE "error"]
       ELSE /\ events' = events
            /\ resp' = [NoResp EXCEPT
                          !.op = "toggle_visibility",
                          !.args = [id |-> id, is_visible |-> is_visible],
                          !.error = "not_found"]
    /\ UNCHANGED <<posts, hobbies, call>>
    /\ ListFrame

\* number of events whose visibility is toggled
MaxVisEvents == 3

\* events of one category at one place, each visible, hidden or without
\* the is_visible field
InitVisible ==
    /\ InitLikeWith({}) /\ InitFollow /\ InitAtRest /\ InitReviewWith({})
    /\ \E E \in EventLists(MaxVisEvents, {<<W_thien>>}, {"true", "false", "absent"}, {TRUE}) :
          InitListWith([i \in 1..Len(E) |-> [E[i] EXCEPT !.coords = <<0, 1001>>]], <<>>)

NextVisible ==
    \/ \E id \in 1..(MaxVisEvents + 1), is_visible \in BOOLEAN : ToggleVisibility(id, is_visible)
    \/ \E page_size \in {1, DefaultPageSize}, include_hidden \in BOOLEAN :
          GetAllCount(1, page_size, include_hidden)
    \/ GetAllFind
    \/ \E page_size \in {1, DefaultPageSize}, f \in {NoFilter, [NoFilter EXCEPT !.query = <<"a">>]} :
          SearchCount(1, page_size, f)
    \/ SearchFind
    \/ \E limit \in Limits, include_score \in BOOLEAN :
          GetRecommendedEvents(<<W_thien>>, limit, include_score)
    \/ \E limit \in Limits : GetNearbyEvents(0, 0, 5000, limit)
    \/ GetByCategory(W_thien)


\* number of events that are searched
MaxSearchEvents == 2

W_ab == <<"a", "b">>
W_AB == <<"A", "B">>
W_a_dot == <<"a", ".">>
W_Ba == <<"B", "a">>

\* events named "ab", "AB" or "a.", with history "Ba", in province "ab", in
\* city "ab" or without a city, with the category "ab" or without any
RECURSIVE SearchEventLists(_)
SearchEventLists(n) ==
    IF n = 0 THEN {<<>>}
    ELSE LET shorter == SearchEventLists(n - 1)
         IN  shorter \cup
             {Append(l, [EventDoc(n) EXCEPT !.name = nm, !.history = W_Ba,
                                            !.province = W_ab, !.city = c,
                                            !.categories = cs, !.is_visible = f])
                : l \in {x \in shorter : Len(x) = n - 1},
                  nm \in {W_ab, W_AB, W_a_dot}, c \in {<<>>, W_ab},
                  cs \in {<<>>, <<W_ab>>}, f \in {"true", "false", "absent"}}

\* the parameters of the search requests
SearchFilters ==
    { NoFilter,
      [NoFilter EXCEPT !.query = W_AB],
      [NoFilter EXCEPT !.query = W_a_dot],
      [NoFilter EXCEPT !.query = W_Ba],
      [NoFilter EXCEPT !.city = <<"B">>],
      [NoFilter EXCEPT !.province = <<"b">>],
      [NoFilter EXCEPT !.categories = <<W_AB>>],
      [NoFilter EXCEPT !.categories = <<<<"a">>, W_a_dot>>],
      [NoFilter EXCEPT !.query = <<"b">>, !.city = <<"a">>, !.categories = <<W_ab>>] }

InitSearch ==
    /\ InitLikeWith({}) /\ InitFollow /\ InitAtRest /\ InitReviewWith({})
    /\ \E E \in SearchEventLists(MaxSearchEvents) : InitListWith(E, <<>>)

NextSearch ==
    \/ \E f \in SearchFilters : SearchCount(1, DefaultPageSize, f)
    \/ SearchFind



\* 90 degrees of latitude and 360 degrees of longitude, in metres of arc on
\* a sphere of radius 6371 km
QuarterMeridian == 10007543
FullTurn == 40030174

\* validate_coordinates: latitude in [-90, 90] and longitude in [-180, 180]
ValidateCoordinates(lat, lng) ==
    /\ -QuarterMeridian <= lat /\ lat <= QuarterMeridian
    /\ -(2 * QuarterMeridian) <= lng /\ lng <= 2 * QuarterMeridian

\* GET /events/nearby: lat and lng are any float, the call of
\* get_nearby_events follows at once
GetNearby(lat, lng, radius_km, limit) == GetNearbyEvents(lat, lng, radius_km, limit)

\* number of events around the centers
MaxCenterEvents == 2

\* events 1001 m north of the origin and 500 m south of the north pole
RECURSIVE CenterEventLists(_)
CenterEventLists(n) ==
    IF n = 0 THEN {<<>>}
    ELSE LET shorter == CenterEventLists(n - 1)
         IN  shorter \cup
             {Append(l, [EventDoc(n) EXCEPT !.coords = c, !.is_visible = f])
                : l \in {x \in shorter : Len(x) = n - 1},
                  c \in {<<0, 1001>>, <<0, QuarterMeridian - 500>>},
                  f \in {"true", "false"}}

InitCenter ==
    /\ InitLikeWith({}) /\ InitFollow /\ InitAtRest /\ InitReviewWith({})
    /\ \E E \in CenterEventLists(MaxCenterEvents) : InitListWith(E, <<>>)

\* centers at the origin, 500 m before and 500 m beyond the north pole, one
\* degree beyond the south pole, and at the origin with a longitude of 360
\* degrees (a full turn more leaves the haversine distance as it is)
NextCenter ==
    \E lat \in {0, QuarterMeridian - 500, QuarterMeridian + 500, -QuarterMeridian - 111195},
       lng \in {0, FullTurn}, radius \in {1010, 5000}, limit \in Limits :
        GetNearby(lat, lng, radius, limit)

\* one call of each of toggle_like, follow_user, create_review and
\* create_comment, the four next to each other (the calls of one operation
\* next to each other are in the specifications of the features)
ValidationReqs == {1}

\* no like, no follower, no review or one, no comment or a comment and its reply
InitValidation ==
    /\ InitLikeWith({}) /\ InitFollow /\ InitReview /\ InitList
    /\ InitComments /\ InitEventIds /\ InitParticipation

\* toggle_like, follow_user, create_review and create_comment
NextValidation ==
    \/ \E r \in ValidationReqs, u \in Users, t \in Targets : ToggleLikeFind(r, u, t)
    \/ \E r \in ValidationReqs, u \in Users : ToggleLikeNotFound(r, u)
    \/ \E r \in ValidationReqs : ToggleLikeUpdate(r)
    \/ \E r \in ValidationReqs : ToggleLikeReread(r)
    \/ \E r \in ValidationReqs, a \in FollowActors, b \in FollowTargets : FollowFindTarget(r, a, b)
    \/ \E r \in ValidationReqs : FollowCheck(r)
    \/ \E r \in ValidationReqs : FollowWriteCurrent(r)
    \/ \E r \in ValidationReqs : FollowWriteTarget(r)
    \/ \E r \in ValidationReqs, u \in Reviewers, e \in Events \cup {NoEvent}, x \in RatingChoices :
          CreateFindEvent(r, u, e, x)
    \/ \E r \in ValidationReqs : CreateCheckExisting(r)
    \/ \E r \in ValidationReqs : CreateInsert(r)
    \/ \E r \in ValidationReqs : AggregateStats(r)
    \/ \E r \in ValidationReqs : WriteStats(r)
    \/ \E r \in ValidationReqs, u \in Commenters, p \in CPosts \cup {NoPost},
          parent \in {NoParent, -1, 0} : CreateCommentFindPost(r, u, p, parent)
    \/ \E r \in ValidationReqs : CreateCommentInsert(r)
    \/ \E r \in ValidationReqs : CreateCommentIncPost(r)
    \/ \E r \in ValidationReqs : CreateCommentIncParent(r)

\* no review or one, no comment or a comment and its reply
InitCascade ==
    /\ InitLikeWith({}) /\ InitFollow /\ InitReview /\ InitList
    /\ InitComments /\ InitEventIds /\ InitParticipation

\* one create_review next to delete_by_id, two calls of create_comment and
\* delete_post next to each other
CascadeReviewReqs == {1}
CascadeCommentReqs == {1, 2}

\* delete_by_id next to create_review, delete_post next to create_comment
NextCascade ==
    \/ \E e \in Events : DeleteById(e)
    \/ \E r \in CascadeReviewReqs, u \in Reviewers, e \in Events \cup {NoEvent},
          x \in RatingChoices : CreateFindEvent(r, u, e, x)
    \/ \E r \in CascadeReviewReqs : CreateCheckExisting(r)
    \/ \E r \in CascadeReviewReqs : CreateInsert(r)
    \/ \E r \in CascadeReviewReqs : AggregateStats(r)
    \/ \E r \in CascadeReviewReqs : WriteStats(r)
    \/ \E r \in CascadeCommentReqs, u \in Commenters, p \in CPosts \cup {NoPost},
          parent \in {NoParent, 0} : CreateCommentFindPost(r, u, p, parent)
    \/ \E r \in CascadeCommentReqs : CreateCommentInsert(r)
    \/ \E r \in CascadeCommentReqs : CreateCommentIncPost(r)
    \/ \E r \in CascadeCommentReqs : CreateCommentIncParent(r)
    \/ \E r \in CascadeCommentReqs, u \in Commenters, p \in CPosts \cup {NoPost} :
          DeletePostFind(r, u, p)
    \/ \E r \in CascadeCommentReqs : DeletePostOne(r)
    \/ \E r \in CascadeCommentReqs : DeletePostComments(r)

\* two calls that change the users' lists, before, during or after the run
\* of the batch pass
MigrateReqs == {1, 2}

InitMigrate ==
    /\ InitLikeWith({}) /\ InitFollow /\ InitReviewWith({}) /\ InitList
    /\ InitComment /\ InitEventIds /\ InitParticipation

NextMigrate ==
    \/ \E r \in MigrateReqs, u \in Participants, e \in PartEvents :
          AddParticipatedEventRead(r, u, u, e)
    \/ \E r \in MigrateReqs, u \in Participants, e \in PartEvents :
          RemoveParticipatedEventRead(r, u, u, e)
    \/ \E r \in MigrateReqs : UserUpdateById(r)
    \/ \E e \in PartEvents : CreateCheckin("u1", e)
    \/ MigrateFind
    \/ MigrateCount
    \/ MigrateUpdate

\* update_by_id of an event: find_one_and_update with $set of the fields
\* the request carries and of updated_at, NOT_FOUND without the event
EventUpdateById(id, data) ==
    /\ IF \E i \in 1..Len(events) : events[i].id = id
       THEN /\ events' = [i \in 1..Len(events) |->
                            IF events[i].id = id
                            THEN [events[i] EXCEPT
                                    !.name = IF "name" \in DOMAIN data THEN data.name ELSE @,
                                    !.is_visible = IF "is_visible" \in DOMAIN data
                                                   THEN (IF data.is_visible THEN "true" ELSE "false")
                                                   ELSE @,
                                    !.updated_at = 1]
                            ELSE events[i]]
            /\ resp' = [NoResp EXCEPT
                          !.op = "update_by_id",
                          !.args = [id |-> id, data |-> data],
                          !.items = <<id>>,
                          !.error = IF \E i \in 1..Len(events) :
                                         events[i].id = id /\ events[i].wellformed
                                    THEN "none" ELSE "error"]
       ELSE /\ events' = events
            /\ resp' = [NoResp EXCEPT
                          !.op = "update_by_id",
                          !.args = [id |-> id, data |-> data],
                          !.error = "not_found"]
    /\ UNCHANGED <<posts, hobbies, call>>
    /\ ListFrame

\* the fields an EventUpdateRequest carries
UpdateChoices == {[name |-> W_ab], [name |-> W_AB, is_visible |-> FALSE]}

\* one call of toggle_like, of follow_user or unfollow_user, and of
\* create_review
FrameReqs == {1}

\* u1 follows u2, no call running
InitFollowing ==
    /\ following = [u \in Users |-> IF u = "u1" THEN {"u2"} ELSE {}]
    /\ followers = [u \in Users |-> IF u = "u2" THEN {"u1"} ELSE {}]
    /\ following_count = [u \in Users |-> IF u = "u1" THEN 1 ELSE 0]
    /\ followers_count = [u \in Users |-> IF u = "u2" THEN 1 ELSE 0]
    /\ freq = [r \in FollowReqs |-> IdleFollow]
    /\ ffail = <<>>
    /\ ftrack = [calls |-> <<>>, cur |-> <<>>]

\* every target liked by nobody or by u1, u1 following u2, no review, one
\* event in the listing
InitFrame ==
    /\ \E S \in {{}, {"u1"}} : InitLikeWith(S)
    /\ InitFollowing /\ InitAtRest /\ InitReviewWith({})
    /\ InitListWith(<<EventDoc(1)>>, <<>>)

NextFrame ==
    \/ \E r \in FrameReqs, t \in Targets : ToggleLikeFind(r, "u1", t)
    \/ \E r \in FrameReqs : ToggleLikeNotFound(r, "u1")
    \/ \E r \in FrameReqs : ToggleLikeUpdate(r)
    \/ \E r \in FrameReqs : ToggleLikeReread(r)
    \/ \E r \in FrameReqs, a \in FollowActors, b \in FollowTargets : FollowFindTarget(r, a, b)
    \/ \E r \in FrameReqs : FollowCheck(r)
    \/ \E r \in FrameReqs : FollowWriteCurrent(r)
    \/ \E r \in FrameReqs : FollowWriteTarget(r)
    \/ \E r \in FrameReqs, a \in FollowActors, b \in FollowTargets : UnfollowCheck(r, a, b)
    \/ \E r \in FrameReqs : UnfollowWriteCurrent(r)
    \/ \E r \in FrameReqs : UnfollowWriteTarget(r)
    \/ \E r \in FrameReqs, e \in Events : CreateFindEvent(r, "u1", e, 2)
    \/ \E r \in FrameReqs : CreateCheckExisting(r)
    \/ \E r \in FrameReqs : CreateInsert(r)
    \/ \E r \in FrameReqs : AggregateStats(r)
    \/ \E r \in FrameReqs : WriteStats(r)
    \/ \E is_visible \in BOOLEAN : ToggleVisibility(1, is_visible)
    \/ \E data \in UpdateChoices : EventUpdateById(1, data)

InitCommentCalls ==
    /\ InitLikeWith({}) /\ InitFollow /\ InitReviewWith({}) /\ InitList
    /\ InitComments /\ InitEventIds /\ InitParticipation

\* u1 has taken part in nothing, or in e3
InitParticipations ==
    /\ InitLikeWith({}) /\ InitFollow /\ InitReviewWith({}) /\ InitList
    /\ InitComment /\ InitEventIds
    /\ \E l \in {<<>>, <<"e3">>} :
          InitParticipationWith([u \in Participants |-> IF u = "u1" THEN l ELSE <<>>])

NextParticipation ==
    \/ \E r \in PartReqs, t \in Participants, u \in Participants, e \in PartEvents :
          AddParticipatedEventRead(r, t, u, e)
    \/ \E r \in PartReqs, t \in Participants, u \in Participants, e \in PartEvents :
          RemoveParticipatedEventRead(r, t, u, e)
    \/ \E r \in PartReqs : UserUpdateById(r)

\* ------------------------------------------------------------------------
\* Specifications
\* ------------------------------------------------------------------------
vars == <<likeVars, followVars, reviewVars, listVars, commentVars, eventVars, partVars>>

Init == InitLike /\ InitFollow /\ InitAtRest /\ InitReview /\ InitList

\* nothing liked yet
InitFresh == InitLikeWith({}) /\ InitFollow /\ InitAtRest /\ InitReviewWith({}) /\ InitList

Next ==
    \/ NextLike
    \/ NextFollow
    \/ NextReview

Spec == Init /\ [][Next]_vars

\* The handlers of the three features write disjoint fields, so each feature
\* is checked on its own handlers, the other features at rest in the state a
\* fresh database is in.
InitLikes == InitLike /\ InitFollow /\ InitAtRest /\ InitReviewWith({}) /\ InitList

SpecLike == InitLikes /\ [][NextLike]_vars

SpecFollow == InitFresh /\ [][NextFollow]_vars

InitReviews == InitLikeWith({}) /\ InitFollow /\ InitAtRest /\ InitReview /\ InitList

SpecReview == InitReviews /\ [][NextReview]_vars

\* The listings read the collections; they are checked on collections that
\* no other request writes.
SpecPage == InitPage /\ [][NextPage]_vars

SpecScore == InitScore /\ [][NextScore]_vars

SpecRank == InitRank /\ [][NextRank]_vars

SpecRecommend == InitRecommend /\ [][NextRecommend]_vars

SpecNearby == InitNearby /\ [][NextNearby]_vars

\* the listings next to toggle_visibility, which writes the events they read
SpecVisible == InitVisible /\ [][NextVisible]_vars

SpecSearch == InitSearch /\ [][NextSearch]_vars

SpecCenter == InitCenter /\ [][NextCenter]_vars

\* the four write paths that validate their input, next to each other
SpecValidation == InitValidation /\ [][NextValidation]_vars

\* the deletion of an event or a post next to the calls that write its
\* reviews or comments
SpecCascade == InitCascade /\ [][NextCascade]_vars

\* the batch pass over the events next to the calls that change the lists
\* it is to count
SpecMigrate == InitMigrate /\ [][NextMigrate]_vars

\* the engagement operations and the other writers of the event document
\* next to each other
SpecFrame == InitFrame /\ [][NextFrame]_vars

\* the comment calls next to each other
SpecComment == InitCommentCalls /\ [][NextComment]_vars

\* the calls that change the users' lists next to each other
SpecParticipation == InitParticipations /\ [][NextParticipation]_vars

\* ------------------------------------------------------------------------
\* Properties of toggle_like
\* ------------------------------------------------------------------------
Likers(t) == Range(likes[t])

\* C1: whenever no like toggle is in progress, every target's like_count
\* equals the number of distinct user ids in its liker list, also after two
\* concurrent toggles of the same actor on the same target.
C1_LikeCountEqualsLikers ==
    LikeQuiescent => \A t \in Targets : like_count[t] = Cardinality(Likers(t))

ToggledOnce(t) == {u \in Users : ntoggle[t][u] = 1}

\* C2: when distinct actors each run one toggle_like on the same target, in
\* any interleaving, then after all calls have finished every such actor's
\* membership is the opposite of its initial one, every other actor's is
\* unchanged, and like_count moved by (#added - #removed).
C2_NoLostUpdate ==
    LikeQuiescent =>
        \A t \in Targets :
            (\A u \in Users : ntoggle[t][u] <= 1) =>
                /\ \A u \in Users :
                      Contains(likes[t], u) = ((u \in likes0[t]) # (u \in ToggledOnce(t)))
                /\ like_count[t] = Cardinality(likes0[t])
                                     + Cardinality(ToggledOnce(t) \ likes0[t])
                                     - Cardinality(ToggledOnce(t) \cap likes0[t])

\* three distinct actors have toggled the same target, at least one adding
\* and one removing, and the last call to finish overlapped another call
C2_Witness ==
    /\ LikeQuiescent
    /\ ltrack.calls = <<>>
    /\ \E t \in Targets :
          /\ ToggledOnce(t) = Users
          /\ likes0[t] # {}
          /\ likes0[t] # Users

\* C3: the membership test and the update are one atomic step: while a
\* request is between its test and its update, the branch it took is still
\* the branch the current contents of the liker list call for.
C3_BranchMatchesSet ==
    \A r \in LikeReqs :
        lreq[r].pc = "update" =>
            lreq[r].action = ChooseAction(likes[lreq[r].target], lreq[r].actor)

\* two toggle_like calls have just run alone, one after the other
TwoCallsDone == ltrack.cur = <<>> /\ Len(ltrack.calls) = 2

SameToggleTwice ==
    /\ TwoCallsDone
    /\ ltrack.calls[1].actor = ltrack.calls[2].actor
    /\ ltrack.calls[1].target = ltrack.calls[2].target

\* C9: two consecutive toggle_like calls of one actor on one target, with
\* nothing in between, restore the liker set and like_count; the first call
\* reports is_liked opposite to the initial membership, the second reports
\* the initial membership.
C9_ToggleInvolution ==
    SameToggleTwice =>
        LET c1  == ltrack.calls[1]
            c2  == ltrack.calls[2]
            was == Contains(c1.pre.likes, c1.actor)
        IN  /\ Likers(c1.target) = Range(c1.pre.likes)
            /\ like_count[c1.target] = c1.pre.like_count
            /\ c1.is_liked = ~was
            /\ c2.is_liked = was

\* the involution on a post whose actor liked it at first
C9_Witness ==
    /\ SameToggleTwice
    /\ ltrack.calls[1].target = "post"
    /\ ~ltrack.calls[1].is_liked
    /\ Cardinality(Range(ltrack.calls[1].pre.likes)) = 2

\* ------------------------------------------------------------------------
\* Properties of follow_user / unfollow_user
\* ------------------------------------------------------------------------
\* C4: whenever no follow or unfollow is in progress, every user's
\* following_count and followers_count equal the sizes of the following and
\* followers sets, also after simultaneous calls of one actor-target pair.
C4_CountsEqualSets ==
    (FollowQuiescent /\ ffail = <<>>) =>
        \A u \in Users :
            /\ following_count[u] = Cardinality(following[u])
            /\ followers_count[u] = Cardinality(followers[u])

PairConsistent(s, a, b) ==
    /\ (b \in s.following[a]) <=> (a \in s.followers[b])
    /\ \A u \in {a, b} \cap Users :
          /\ s.following_count[u] = Cardinality(s.following[u])
          /\ s.followers_count[u] = Cardinality(s.followers[u])

\* C6: after a follow or unfollow of (A,B) has stopped between its two
\* writes (and no other write has failed), some sequence of failure-free
\* follow/unfollow calls (the code offers no reconciliation operation) leads
\* to a store in which the relation of A and B is symmetric and their
\* counts equal their set sizes.
C6_PartialFailureRecoverable ==
    (FollowQuiescent /\ Len(ffail) = 1) =>
        \E s \in ReachSeq({UserStore}, RecoverDepth) :
            PairConsistent(s, ffail[1][1], ffail[1][2])

TwoFollowCallsDone == ftrack.cur = <<>> /\ Len(ftrack.calls) = 2

\* two calls on the same pair (A,B), A # B an existing user, ran alone one
\* after the other, the first a follow_user from a state where A did not
\* follow B
FollowThen(op2) ==
    /\ TwoFollowCallsDone
    /\ ftrack.calls[1].op = "follow"
    /\ ftrack.calls[2].op = op2
    /\ ftrack.calls[1].cur = ftrack.calls[2].cur
    /\ ftrack.calls[1].tgt = ftrack.calls[2].tgt
    /\ ftrack.calls[1].cur # ftrack.calls[1].tgt
    /\ ftrack.calls[1].tgt \in Users
    /\ ~IsFollowing(ftrack.calls[1].pre, ftrack.calls[1].cur, ftrack.calls[1].tgt)

\* C10: from a state where A does not follow B, follow_user(A,B) then
\* unfollow_user(A,B) leave following_count(A) and followers_count(B) at
\* their initial values and is_following(A,B) false; a second
\* follow_user(A,B) instead returns False and changes no set and no counter.
C10_FollowUnfollowRoundTrip ==
    LET c1 == ftrack.calls[1]
        c2 == ftrack.calls[2]
    IN  /\ FollowThen("unfollow") =>
              /\ following_count[c1.cur] = c1.pre.following_count[c1.cur]
              /\ followers_count[c1.tgt] = c1.pre.followers_count[c1.tgt]
              /\ ~IsFollowing(UserStore, c1.cur, c1.tgt)
        /\ FollowThen("follow") =>
              /\ c2.res = "false"
              /\ UserStore = c2.pre

\* the round trip has run, both calls having written
C10_Witness ==
    /\ FollowThen("unfollow")
    /\ ftrack.calls[1].res = "true"
    /\ ftrack.calls[2].res = "true"

\* ------------------------------------------------------------------------
\* Properties of the review calls
\* ------------------------------------------------------------------------
\* C7: in every reachable state there is at most one review per
\* (user_id, event_id) pair, also when two create_review calls of the same
\* user for the same event interleave between the check and the insert.
C7_OneReviewPerUserAndEvent ==
    \A d1 \in reviews, d2 \in reviews :
        (d1.user_id = d2.user_id /\ d1.event_id = d2.event_id) => d1 = d2

\* C8: once every review call has completed, whatever their interleaving,
\* each event's review_count is the number of its reviews and its
\* average_rating is the mean of their ratings rounded to one decimal
\* (0 without reviews).
C8_StatsMatchReviews ==
    ReviewQuiescent =>
        \A e \in Events :
            /\ review_count[e] = Cardinality(ReviewsOf(reviews, e))
            /\ average_rating[e] =
                  (IF ReviewsOf(reviews, e) = {} THEN 0
                   ELSE RoundTenths(SumRatings(ReviewsOf(reviews, e)),
                                    Cardinality(ReviewsOf(reviews, e))))

\* the steps of create_review up to and including the duplicate check
CreateRejectingStep(r) ==
    /\ rreq[r].pc \in {"idle", "check"}
    /\ rreq'[r].pc # rreq[r].pc
    /\ rreq'[r].pc \in {"check", "done"}
    /\ rreq'[r].op \in {"create", "none"}

\* C11: a create_review for (E, U) that finds a review of U for E is rejected
\* with the duplicate-entry (Conflict) error, and the call, from its start to
\* the rejection, inserts no review and leaves the stored average_rating and
\* review_count as they were.
C11_DuplicateRejected ==
    [][\A r \in ReviewReqs :
          /\ CreateRejectingStep(r) =>
                /\ reviews' = reviews
                /\ average_rating' = average_rating
                /\ review_count' = review_count
          /\ (/\ rreq[r].pc = "check"
              /\ rreq'[r].pc # rreq[r].pc
              /\ \E d \in reviews : /\ d.event_id = rreq[r].event
                                     /\ d.user_id = rreq[r].user)
             => rreq'[r] = ReviewReturns("conflict")]_vars

\* a create_review for a pair that has a review was rejected, the review and
\* the statistics of the event still there
C11_Witness ==
    \E r \in ReviewReqs :
        /\ rreq[r].res = "conflict"
        /\ \A o \in ReviewReqs \ {r} : rreq[o].pc = "idle"
        /\ Cardinality(reviews) = 1
        /\ \E e \in Events : review_count[e] = 1

\* C12: when a delete_review that no other review call overlaps completes
\* and has removed the only review left of its event, the event's stored
\* average_rating is 0 and its stored review_count is 0.
C12_DeleteLastReview ==
    [][\A r \in ReviewReqs :
          (/\ rreq[r].pc = "write"
           /\ rreq[r].op = "delete"
           /\ rreq[r].alone
           /\ rreq'[r].pc = "done"
           /\ ReviewsOf(reviews', rreq[r].event) = {})
          => /\ average_rating'[rreq[r].event] = 0
             /\ review_count'[rreq[r].event] = 0]_vars

\* the only review of an event was deleted by a call that ran on its own
C12_Witness ==
    \E r \in ReviewReqs :
        /\ rreq[r].res = "deleted"
        /\ \A o \in ReviewReqs : o > r => rreq[o].pc = "idle"
        /\ \A o \in ReviewReqs : o < r => rreq[o].res = "created"
        /\ \A e \in Events : ReviewsOf(reviews, e) = {} /\ review_count[e] = 0

\* ------------------------------------------------------------------------
\* Properties of the listings
\* ------------------------------------------------------------------------
\* the filtered set the last answered listing request ranged over
FilteredSet ==
    IF resp.op = "get_feed"
    THEN {i \in 1..Len(posts) : posts[i].visibility = "public"}
    ELSE IF resp.op = "get_all"
    THEN {i \in 1..Len(events) : resp.include_hidden \/ events[i].is_visible # "false"}
    ELSE {i \in 1..Len(events) : SearchFilter(events[i], resp.filter)}

FilteredWellFormed ==
    resp.op = "get_feed" \/ \A i \in FilteredSet : events[i].wellformed

Paginated == resp.op \in {"get_all", "search_events", "get_feed"}

\* C13: on a filtered set of N well-formed items that no request changes,
\* get_all, search_events and get_feed answer page p of size s with
\* min(s, max(0, N - (p-1)*s)) items and has_more = (N > p*s); with N = 15
\* and s = 10, page 1 has 10 items and has_more, page 2 has 5 and no more.
C13_PageSizeAndHasMore ==
    (Paginated /\ FilteredWellFormed) =>
        LET N    == Cardinality(FilteredSet)
            rest == N - (resp.page - 1) * resp.page_size
            want == IF rest < 0 THEN 0
                    ELSE IF rest < resp.page_size THEN rest ELSE resp.page_size
        IN  /\ Len(resp.items) = want
            /\ resp.has_more = (N > resp.page * resp.page_size)
            /\ (N = 15 /\ resp.page_size = 10 /\ resp.page = 1)
                  => (Len(resp.items) = 10 /\ resp.has_more)
            /\ (N = 15 /\ resp.page_size = 10 /\ resp.page = 2)
                  => (Len(resp.items) = 5 /\ ~resp.has_more)

\* page 2 of 15 well-formed search results, ten to the page, was answered
C13_Witness ==
    /\ resp.op = "search_events"
    /\ FilteredWellFormed
    /\ Cardinality(FilteredSet) = 15
    /\ Len(events) > 15
    /\ resp.page = 2
    /\ resp.page_size = 10
    /\ Len(resp.items) = 5

\* the weight of one (interest, tag) pair: both lower-cased and trimmed, 10 if
\* equal, else 5 if one contains the other, else 2 if they are, in either
\* order and in any letter case, a pair of the synonym table, else 0
PairWeight(interest, tag) ==
    LET a == Strip(LowerStr(interest))
        b == Strip(LowerStr(tag))
    IN  IF a = b THEN 10
        ELSE IF IsSubstring(a, b) \/ IsSubstring(b, a) THEN 5
        ELSE IF \E p \in RelatedPairs :
                   {LowerStr(p[1]), LowerStr(p[2])} = {a, b} THEN 2
        ELSE 0

\* the sum of the weights over a set of position pairs
RECURSIVE SumWeights(_, _, _)
SumWeights(P, interests, tags) ==
    IF P = {} THEN 0
    ELSE LET q == CHOOSE x \in P : TRUE
         IN  PairWeight(interests[q[1]], tags[q[2]])
               + SumWeights(P \ {q}, interests, tags)

\* C17: calculate_relevance_score(interests, tags) is the sum over all
\* position pairs, duplicates included, of the weight above; so it is never
\* negative, it is 0 when either list is empty, and the score of a
\* concatenation of interest lists is the sum of the scores of the parts.
C17_ScoreIsSumOfWeights ==
    resp.op = "calculate_relevance_score" =>
        LET interests == resp.args.h1 \o resp.args.h2
            tags      == resp.args.tags
        IN  /\ resp.scores[1] =
                  SumWeights((1..Len(interests)) \X (1..Len(tags)), interests, tags)
            /\ resp.scores[1] >= 0
            /\ (interests = <<>> \/ tags = <<>>) => resp.scores[1] = 0
            /\ resp.scores[1] = resp.scores[2] + resp.scores[3]

\* the event document with the given id
EventById(id) == events[CHOOSE i \in 1..Len(events) : events[i].id = id]

\* the relevance of an event to the hobbies of the last answered request
ScoreOfEvent(id) ==
    CalculateRelevanceScore(resp.args.hobbies, EventById(id).categories)

\* C16: rank_events_by_relevance returns a permutation of its input, in
\* non-increasing order of relevance score, two events of equal score in
\* the order they had in the input.
C16_RankIsStablePermutation ==
    resp.op = "rank_events_by_relevance" =>
        /\ Len(resp.items) = Len(events)
        /\ \A i \in 1..Len(events) : \E j \in 1..Len(resp.items) : resp.items[j] = events[i].id
        /\ \A i \in 1..Len(resp.items), j \in 1..Len(resp.items) :
              i < j =>
                /\ ScoreOfEvent(resp.items[i]) >= ScoreOfEvent(resp.items[j])
                /\ ScoreOfEvent(resp.items[i]) = ScoreOfEvent(resp.items[j])
                     => resp.items[i] < resp.items[j]

\* four events were ranked, two of equal positive score behind a better one
\* that came last in the input
C16_Witness ==
    /\ resp.op = "rank_events_by_relevance"
    /\ Len(resp.items) = 4
    /\ resp.items[1] = 4
    /\ ScoreOfEvent(resp.items[2]) = ScoreOfEvent(resp.items[3])
    /\ ScoreOfEvent(resp.items[2]) > 0
    /\ ScoreOfEvent(resp.items[1]) > ScoreOfEvent(resp.items[2])

\* C14: for non-empty hobbies and either value of include_score,
\* get_recommended_events returns only visible events of positive score, in
\* non-increasing order of score, at most limit of them, and the best ones:
\* when a visible well-formed event of positive score is left out, limit
\* events were returned and none of them scores lower than it.
C14_RecommendedAreTopScoring ==
    (resp.op = "get_recommended_events" /\ resp.args.hobbies # <<>>) =>
        /\ Len(resp.items) <= resp.args.limit
        /\ \A i \in 1..Len(resp.items) :
              /\ EventById(resp.items[i]).is_visible # "false"
              /\ ScoreOfEvent(resp.items[i]) > 0
        /\ \A i \in 1..Len(resp.items), j \in 1..Len(resp.items) :
              i < j => ScoreOfEvent(resp.items[i]) >= ScoreOfEvent(resp.items[j])
        /\ \A k \in 1..Len(events) :
              (/\ events[k].is_visible # "false"
               /\ events[k].wellformed
               /\ ScoreOfEvent(events[k].id) > 0
               /\ \A i \in 1..Len(resp.items) : resp.items[i] # events[k].id)
              => /\ Len(resp.items) = resp.args.limit
                 /\ \A i \in 1..Len(resp.items) :
                       ScoreOfEvent(resp.items[i]) >= ScoreOfEvent(events[k].id)

\* C15: for a user whose hobby list is empty the recommendations endpoint
\* answers without error, with the visible events, newest first, cut to limit.
C15_EmptyHobbiesFallback ==
    (/\ resp.op = "get_recommendations"
     /\ resp.args.user \in DOMAIN hobbies
     /\ hobbies[resp.args.user] = <<>>)
    => /\ resp.error = "none"
       /\ resp.items = Responses(SkipLimit(SortNewestFirst(
                                    SelectSeq(events, VisibilityFilter)),
                                  0, resp.args.limit))

\* the distance of an event to the center of the last answered request
DistanceOfEvent(id) ==
    CalculateDistance(resp.args.lat, resp.args.lng,
                      EventById(id).coords[2], EventById(id).coords[1])

\* the events get_nearby_events is to choose from
Qualifies(d) ==
    /\ d.is_visible # "false"
    /\ Len(d.coords) = 2
    /\ CalculateDistance(resp.args.lat, resp.args.lng, d.coords[2], d.coords[1])
         <= resp.args.radius

\* the position of an event in the collection
InputPosition(id) == CHOOSE i \in 1..Len(events) : events[i].id = id

\* C18: get_nearby_events returns only visible events with coordinates
\* within radius_km of the center, in non-decreasing order of their distance
\* to the center, equal distances in input order; no qualifying event that
\* is left out is strictly nearer than a returned one; events without
\* coordinates are left out without an error.
C18_NearbySortedByDistance ==
    resp.op = "get_nearby_events" =>
        /\ resp.error = "none"
        /\ Len(resp.items) <= resp.args.limit
        /\ \A i \in 1..Len(resp.items) : Qualifies(EventById(resp.items[i]))
        /\ \A i \in 1..Len(resp.items), j \in 1..Len(resp.items) :
              i < j =>
                /\ DistanceOfEvent(resp.items[i]) <= DistanceOfEvent(resp.items[j])
                /\ DistanceOfEvent(resp.items[i]) = DistanceOfEvent(resp.items[j])
                     => InputPosition(resp.items[i]) < InputPosition(resp.items[j])
        /\ \A k \in 1..Len(events) :
              (/\ Qualifies(events[k])
               /\ \A i \in 1..Len(resp.items) : resp.items[i] # events[k].id)
              => /\ Len(resp.items) = resp.args.limit
                 /\ \A i \in 1..Len(resp.items) :
                       DistanceOfEvent(resp.items[i]) <= DistanceOfEvent(events[k].id)

\* the last answer is that of a public listing
PublicListing ==
    \/ resp.op = "get_all" /\ ~resp.include_hidden
    \/ resp.op \in {"search_events", "get_recommended_events",
                    "get_nearby_events", "get_by_category"}

\* the collection with is_visible set to true where the field is absent
AbsentAsVisible(docs) ==
    [i \in 1..Len(docs) |->
        IF docs[i].is_visible = "absent"
        THEN [docs[i] EXCEPT !.is_visible = "true"] ELSE docs[i]]

\* the events the last listing request would be answered with on docs
ItemsOn(docs) ==
    CASE resp.op = "get_all" ->
           GetAllItems(docs, resp.page, resp.page_size, resp.include_hidden)
      [] resp.op = "search_events" ->
           SearchItems(docs, resp.page, resp.page_size, resp.filter)
      [] resp.op = "get_recommended_events" ->
           GetRecommendedEventsAnswer(docs, resp.args.hobbies, resp.args.limit,
                                      resp.args.include_score).items
      [] resp.op = "get_nearby_events" ->
           Responses(NearbyEvents(docs, resp.args.lat, resp.args.lng,
                                  resp.args.radius, resp.args.limit))
      [] resp.op = "get_by_category" -> ByCategoryItems(docs, resp.args.category)

\* C19: whatever the events collection and the request, get_all without
\* include_hidden, search_events, get_recommended_events, get_nearby_events
\* and get_by_category return no event whose is_visible is false, and answer
\* as they would if the events without the field had is_visible true; also
\* when toggle_visibility has just hidden an event.
C19_HiddenNeverListed ==
    PublicListing =>
        /\ \A i \in 1..Len(resp.items) : EventById(resp.items[i]).is_visible # "false"
        /\ resp.items = ItemsOn(AbsentAsVisible(events))

\* a search answered after toggle_visibility hid an event: the answer has
\* an event without the is_visible field
C19_Witness ==
    /\ resp.op = "search_events"
    /\ \E k \in 1..Len(events) : events[k].is_visible = "false" /\ events[k].updated_at = 1
    /\ \E i \in 1..Len(resp.items) : EventById(resp.items[i]).is_visible = "absent"

\* a is a substring of b, letter case ignored
SubstringIgnoringCase(a, b) == IsSubstring(LowerStr(a), LowerStr(b))

\* the events search_events is to match with the parameters f
SearchMatches(d, f) ==
    /\ d.is_visible # "false"
    /\ \/ f.query = <<>>
       \/ SubstringIgnoringCase(f.query, d.name)
       \/ SubstringIgnoringCase(f.query, d.intro)
       \/ SubstringIgnoringCase(f.query, d.history)
    /\ f.city = <<>> \/ SubstringIgnoringCase(f.city, d.city)
    /\ f.province = <<>> \/ SubstringIgnoringCase(f.province, d.province)
    /\ \/ f.categories = <<>>
       \/ \E i \in 1..Len(f.categories), j \in 1..Len(d.categories) :
             LowerStr(f.categories[i]) = LowerStr(d.categories[j])

\* C20: search_events matches exactly the events that are visible or
\* without the flag, and whose name, intro or history contains the query,
\* whose city contains the city parameter, whose province contains the
\* province parameter, and one of whose categories equals one of the
\* categories asked for, letter case ignored and every parameter taken as a
\* literal string; a parameter that is absent excludes nothing.
C20_SearchMatchesExactly ==
    (resp.op = "search_events" /\ resp.page = 1 /\ resp.page_size > Len(events)) =>
        {resp.items[i] : i \in 1..Len(resp.items)}
          = {events[k].id : k \in {x \in 1..Len(events) : SearchMatches(events[x], resp.filter)}}

\* C21: a proximity search whose latitude is outside [-90, 90] or whose
\* longitude is outside [-180, 180] is rejected with BadRequest before any
\* query of the events collection: no answer of get_nearby_events is made
\* from the collection for such a center.
C21_BadCenterRejected ==
    (resp.op = "get_nearby_events"
       /\ ~ValidateCoordinates(resp.args.lat, resp.args.lng)) =>
        /\ resp.error = "bad_request"
        /\ resp.items = <<>>

\* ------------------------------------------------------------------------
\* Properties across the features
\* ------------------------------------------------------------------------
\* the documents of all collections
Store ==
    <<likes, like_count, following, followers, following_count, followers_count,
      reviews, average_rating, review_count, events, posts, hobbies,
      post_ids, comment_count, comments, event_ids,
      participated_events, checkins, participant_count>>

\* a call ends with a validation error in this step: toggle_like with
\* NOT_FOUND, follow_user with a self-follow or NOT_FOUND (or False),
\* create_review with NOT_FOUND or a duplicate, create_comment with NOT_FOUND
ValidationErrorStep ==
    \/ \E r \in LikeReqs : lreq[r].pc = "idle" /\ lreq'[r].pc = "done"
    \/ \E r \in FollowReqs : freq[r].pc \in {"idle", "check"} /\ freq'[r].pc = "done"
    \/ \E r \in ReviewReqs : /\ rreq[r].pc # "done"
                             /\ rreq'[r].res \in {"not_found", DuplicateEntry}
    \/ \E r \in CommentReqs : creq[r].pc # "done" /\ creq'[r].res = "not_found"

\* a call passes its first check and goes on to the next one
ValidationPassStep ==
    \/ \E r \in FollowReqs : freq[r].pc = "idle" /\ freq'[r].pc = "check"
    \/ \E r \in ReviewReqs : rreq[r].pc = "idle" /\ rreq'[r].pc = "check"

\* the calls that end with a validation error do so from their first or
\* second step
ErrorsComeFirst ==
    /\ \A r \in ReviewReqs : rreq'[r].res \in {"not_found", DuplicateEntry}
                               => rreq[r].pc \in {"idle", "check", "done"}
    /\ \A r \in CommentReqs : creq'[r].res = "not_found" => creq[r].pc \in {"idle", "done"}

\* C22: a call of toggle_like, follow_user, create_review or create_comment
\* that ends with a validation error (target not found, self-follow,
\* duplicate review) has written nothing: the step that raises the error and
\* the steps of the call before it leave every collection as it is.
C22_NoWriteOnValidationError ==
    [][/\ (ValidationErrorStep \/ ValidationPassStep) => UNCHANGED Store
       /\ ErrorsComeFirst]_vars

\* toggle_like, create_review and create_comment have ended with a
\* validation error on a store that holds a review and comments
C22_Witness ==
    /\ lreq[1].pc = "done" /\ like_count = [t \in Targets |-> 0]
    /\ freq[1].pc = "done" /\ following_count = [u \in Users |-> 0]
    /\ rreq[1].res = DuplicateEntry /\ reviews # {}
    /\ creq[1].res = "not_found" /\ comments # {}

\* no review of a deleted event
NoReviewOfDeletedEvent ==
    \A e \in Events \ event_ids : ~\E d \in reviews : d.event_id = e

\* no comment on a deleted post
NoCommentOnDeletedPost ==
    \A p \in CPosts \ post_ids : ~\E c \in comments : c.post_id = p

\* C23: once delete_by_id of an event, or delete_post of a post, has
\* completed and every request that was in flight has finished, no review
\* references the deleted event and no comment references the deleted post.
C23_DeletionCascades ==
    (ReviewQuiescent /\ CommentQuiescent) =>
        NoReviewOfDeletedEvent /\ NoCommentOnDeletedPost

\* C24: after a run of the participant-count batch pass with no concurrent
\* mutation, the participant_count stored on every event is the number of
\* users whose participated_events list holds the event, the value
\* get_participant_counts computes from the users collection.
C24_BatchPassCountsParticipants ==
    (mig.pc = "done" /\ mig.alone) =>
        /\ participant_count = GetParticipantCounts(participated_events, PartEvents)
        /\ \A e \in PartEvents :
              participant_count[e] =
                 Cardinality({u \in Participants : Contains(participated_events[u], e)})

\* the target of the toggle_like call r that takes this step
LikeTargetOf(r) == IF lreq[r].pc = "idle" THEN lreq'[r].target ELSE lreq[r].target

\* the users of the follow_user / unfollow_user call r that takes this step
FollowCurOf(r) == IF freq[r].pc = "idle" THEN freq'[r].cur ELSE freq[r].cur
FollowTgtOf(r) == IF freq[r].pc = "idle" THEN freq'[r].tgt ELSE freq[r].tgt

\* the collections but the liker sets and like counts
AllButLikes ==
    <<following, followers, following_count, followers_count,
      reviews, average_rating, review_count, events, posts, hobbies,
      post_ids, comment_count, comments, event_ids,
      participated_events, checkins, participant_count>>

\* the collections but the users' follow fields
AllButFollows ==
    <<likes, like_count, reviews, average_rating, review_count, events, posts,
      hobbies, post_ids, comment_count, comments, event_ids,
      participated_events, checkins, participant_count>>

\* C25: toggle_like on a target leaves the liker set and like_count of
\* every other target and the target's average_rating, review_count and
\* participant_count as they are; follow_user(A, B) and unfollow_user(A, B)
\* change nothing but A's following and following_count and B's followers
\* and followers_count; update_by_id and toggle_visibility of an event and
\* the write-through of the review statistics never change likes or
\* like_count.
C25_EngagementFrame ==
    [][/\ \A r \in LikeReqs :
             lreq'[r] # lreq[r] =>
                /\ \A t \in Targets \ {LikeTargetOf(r)} :
                      likes'[t] = likes[t] /\ like_count'[t] = like_count[t]
                /\ UNCHANGED AllButLikes
       /\ \A r \in FollowReqs :
             freq'[r] # freq[r] =>
                /\ \A u \in Users :
                      /\ u # FollowCurOf(r) =>
                            /\ following'[u] = following[u]
                            /\ following_count'[u] = following_count[u]
                      /\ u # FollowTgtOf(r) =>
                            /\ followers'[u] = followers[u]
                            /\ followers_count'[u] = followers_count[u]
                /\ UNCHANGED AllButFollows
       /\ (resp' # resp /\ resp'.op \in {"update_by_id", "toggle_visibility"}) =>
             UNCHANGED <<likes, like_count>>
       /\ \A r \in ReviewReqs :
             (rreq[r].pc = "write" /\ rreq'[r].pc # "write") =>
                UNCHANGED <<likes, like_count>>]_vars

\* a like, a follow, a review with its statistics written through and a
\* change of visibility have all been made
C25_Witness ==
    /\ \E t \in Targets : like_count[t] # Cardinality(likes0[t])
    /\ \E u \in Users : followers_count[u] > 0
    /\ rreq[1].res = "created" /\ \E e \in Events : review_count[e] > 0
    /\ resp.op \in {"update_by_id", "toggle_visibility"} /\ events[1].updated_at = 1

\* the number of comments whose parent_id is the comment id
RepliesOf(cs, id) == Cardinality({c \in cs : c.parent_id = id})

\* C26: whenever no comment operation is in progress, the reply_count of
\* every comment is the number of comments whose parent_id is that comment,
\* after any interleaving of create_comment and delete_comment calls.
C26_ReplyCountEqualsReplies ==
    CommentQuiescent =>
        \A c \in comments : c.reply_count = RepliesOf(comments, c.id)

\* C29: no denormalized counter is ever negative: in every reachable state,
\* also in the middle of any interleaving of toggle_like, follow_user,
\* unfollow_user, create_comment and delete_comment calls, like_count,
\* following_count, followers_count, comment_count and reply_count are >= 0.
C29_CountersNonNegative ==
    /\ \A t \in Targets : like_count[t] >= 0
    /\ \A u \in Users : following_count[u] >= 0 /\ followers_count[u] >= 0
    /\ \A p \in CPosts : comment_count[p] >= 0
    /\ \A c \in comments : c.reply_count >= 0

PartQuiescent == \A r \in PartReqs : preq[r].pc \in {"idle", "done"}

\* C30: no participation update is lost: when all calls have completed, an
\* event that a call of add_participated_event has added to a user's list
\* and that no call has removed from it is in the list, however the read and
\* write steps of the calls were interleaved (calls that add other events
\* or remove other events undo no addition).
C30_NoLostParticipation ==
    PartQuiescent =>
        \A u \in Participants, e \in PartEvents :
            (/\ \E r \in PartReqs : preq[r].op = "add" /\ preq[r].user = u /\ preq[r].event = e
             /\ ~\E r \in PartReqs : preq[r].op = "remove" /\ preq[r].user = u /\ preq[r].event = e)
            => Contains(participated_events[u], e)

\* C27: in the result of get_recommended_events ties fall back to recency:
\* of two returned events of equal relevance score the one with the larger
\* created_at comes first.
C27_TiesNewestFirst ==
    resp.op = "get_recommended_events" =>
        \A i \in 1..Len(resp.items), j \in 1..Len(resp.items) :
            (i < j /\ ScoreOfEvent(resp.items[i]) = ScoreOfEvent(resp.items[j]))
            => EventById(resp.items[i]).created_at > EventById(resp.items[j]).created_at

\* the visible events of positive relevance score
Recommendable ==
    {k \in 1..Len(events) : /\ events[k].is_visible # "false"
                            /\ ScoreOfEvent(events[k].id) > 0}

\* C28: the has_more flag of get_recommended_events is true exactly when
\* there are more recommendable events (visible, relevance score > 0) than
\* limit; it is false whenever every event of positive score is in the
\* result.
C28_HasMoreCountsRecommendable ==
    resp.op = "get_recommended_events" =>
        resp.has_more = (Cardinality(Recommendable) > resp.args.limit)

====
